---- MODULE Spec2Model ----
(***************************************************************************)
(* A model of Stomp::AngularCorrelation (stomp_angular_correlation.cc):    *)
(* the binning constructors, the resolution break between the pixel-based  *)
(* and the pair-based estimator, and the Find*Correlation drivers.         *)
(*                                                                         *)
(* Angles are kept by their decimal logarithm, in units of 1/ExpUnits of a *)
(* decade: the integer e stands for the angle 10^(e/ExpUnits) degrees.     *)
(* Pixel resolutions are the library's powers of two.                      *)
(***************************************************************************)
EXTENDS Integers, Sequences, FiniteSets, TLC

VARIABLES ac, last, maps, ctor, pr

vars == <<ac, last, maps, ctor, pr>>

---------------------------------------------------------------------------
(* Library constants (stomp_core.h) and the scale of the model.            *)

HPixResolution == 4

MaxPixelResolution == 32768

\* units of log10(theta) per decade
ExpUnits == 30

\* log10(2) in the same units (0.3 decade)
OctaveUnits == 9

\* log10 of the pixel diagonal at HPixResolution (about 15 degrees)
DiagUnits == 35

Min(a, b) == IF a < b THEN a ELSE b

Max(a, b) == IF a > b THEN a ELSE b

\* the function f on 1..n as the sequence of its values
AsSeq(f) == f \o <<>>

---------------------------------------------------------------------------
(* AngularBin: the parts of stomp_angular_bin.h the drivers rely on.       *)

\* log10 of an angle of 0.0 degrees: below the log10 of every other angle
ZeroTheta == -1000

\* A default-constructed bin: both angles 0.0, no resolution, no regions.
AngularBin == [ThetaMin |-> ZeroTheta, ThetaMax |-> ZeroTheta,
               Resolution |-> 0, NRegion |-> 0]

\* DoubleGE(a, b) of stomp_core.h: a >= b.
DoubleGE(a, b) == a >= b

\* AngularBin::CalculateResolution: the smallest power-of-two resolution in
\* [HPixResolution, MaxPixelResolution] whose pixel diagonal is strictly
\* smaller than the bin's theta_min, clamped to max_resolution.  The
\* diagonal halves each time the resolution doubles.
RECURSIVE FindResolution(_, _, _, _)
FindResolution(r, diagonal, theta_min, max_resolution) ==
  IF diagonal < theta_min \/ 2 * r > max_resolution
     \/ 2 * r > MaxPixelResolution
  THEN r
  ELSE FindResolution(2 * r, diagonal - OctaveUnits, theta_min, max_resolution)

CalculateResolution(bin, max_resolution) ==
  [bin EXCEPT !.Resolution =
     FindResolution(HPixResolution, DiagUnits, bin.ThetaMin, max_resolution)]

\* AngularBin::ReverseResolutionOrder: descending resolution.
ReverseResolutionOrder(a, b) == a.Resolution > b.Resolution

---------------------------------------------------------------------------
(* The log-spaced constructor, lines 33-77.                                *)

\* floor(log10(theta_min)), in decades
FloorLog10(theta_min) == theta_min \div ExpUnits

\* pow(10.0, unit_double/bins_per_decade), as a logarithm in model units
Pow10(unit_double, bins_per_decade) ==
  unit_double * (ExpUnits \div bins_per_decade)

\* line 39: the loop runs while theta < theta_max
LogLoopGuard(theta, theta_max) == theta < theta_max

\* line 40 without the comparison against theta_min
LogEmitGuardNoFloor(theta, theta_min, theta_max) == theta < theta_max

\* line 40: the bin for this edge is kept
LogEmitGuard(theta, theta_min, theta_max) ==
  DoubleGE(theta, theta_min) /\ (theta < theta_max)

\* lines 41-46: the bin pushed for the edge unit_double
LogBin(unit_double, bins_per_decade) ==
  [AngularBin EXCEPT !.ThetaMin = Pow10(unit_double, bins_per_decade),
                     !.ThetaMax = Pow10(unit_double + 1, bins_per_decade)]

\* lines 36-50 run to completion
RECURSIVE LogLoop(_, _, _, _, _)
LogLoop(bins, unit_double, theta_min, theta_max, bins_per_decade) ==
  LET theta == Pow10(unit_double, bins_per_decade) IN
  IF ~LogLoopGuard(theta, theta_max) THEN bins
  ELSE LogLoop(IF LogEmitGuard(theta, theta_min, theta_max)
               THEN Append(bins, LogBin(unit_double, bins_per_decade))
               ELSE bins,
               unit_double + 1, theta_min, theta_max, bins_per_decade)

LogBins(theta_min, theta_max, bins_per_decade) ==
  LogLoop(<<>>, FloorLog10(theta_min) * bins_per_decade,
          theta_min, theta_max, bins_per_decade)

---------------------------------------------------------------------------
(* The linear constructor, lines 79-117.  Its angles are whole tenths of a *)
(* degree; a bin stores the log10 of an angle like every other bin.        *)

\* log10 of theta tenths of a degree, in model units, for theta in 1..8
Log10OfTenths(theta) == <<-30, -21, -16, -12, -9, -7, -5, -3>>[theta]

\* lines 85-89: the bin pushed for index i; SetThetaMin is called twice and
\* SetThetaMax never
LinearBin(i, theta_min, dtheta) ==
  [[AngularBin EXCEPT !.ThetaMin = Log10OfTenths(theta_min + i * dtheta)]
     EXCEPT !.ThetaMin = Log10OfTenths(theta_min + (i + 1) * dtheta)]

\* lines 82-90 run to completion
LinearBins(n_bins, theta_min, theta_max) ==
  AsSeq([n \in 1..n_bins |->
           LinearBin(n - 1, theta_min, (theta_max - theta_min) \div n_bins)])

---------------------------------------------------------------------------
(* Resolution assignment and the resolution break, lines 119-187.          *)

RECURSIVE MinOfResolutions(_, _, _)
MinOfResolutions(bins, i, acc) ==
  IF i > Len(bins) THEN acc
  ELSE MinOfResolutions(bins, i + 1,
         IF bins[i].Resolution < acc THEN bins[i].Resolution ELSE acc)

RECURSIVE MaxOfResolutions(_, _, _)
MaxOfResolutions(bins, i, acc) ==
  IF i > Len(bins) THEN acc
  ELSE MaxOfResolutions(bins, i + 1,
         IF bins[i].Resolution > acc THEN bins[i].Resolution ELSE acc)

AssignBinResolutions(s, max_resolution) ==
  LET bins == AsSeq([i \in 1..Len(s.thetabin) |->
                       CalculateResolution(s.thetabin[i], max_resolution)])
  IN [s EXCEPT !.thetabin = bins,
               !.min_resolution = MinOfResolutions(bins, 1, MaxPixelResolution),
               !.max_resolution = MaxOfResolutions(bins, 1, HPixResolution)]

\* line 147: the bin is handed to the pair-based estimator
ExceedsMaxGE(resolution, max_resolution) == resolution >= max_resolution

ExceedsMax(resolution, max_resolution) == resolution > max_resolution

\* lines 148-150 with the pair range left alone
ReclassifyPixelOnly(s, i, bin) ==
  [s EXCEPT !.thetabin[i] = [bin EXCEPT !.Resolution = 0],
            !.theta_pixel_begin = @ + 1]

\* lines 148-150: bin i becomes pair-based and both ranges move past it
Reclassify(s, i, bin) ==
  [s EXCEPT !.thetabin[i] = [bin EXCEPT !.Resolution = 0],
            !.theta_pixel_begin = @ + 1,
            !.theta_pair_end = @ + 1]

\* lines 145-152: one pass over the bins
RECURSIVE BreakLoop(_, _)
BreakLoop(s, i) ==
  IF i > Len(s.thetabin) THEN s
  ELSE LET bin == CalculateResolution(s.thetabin[i], MaxPixelResolution) IN
       IF ExceedsMax(bin.Resolution, s.max_resolution)
       THEN BreakLoop(Reclassify(s, i, bin), i + 1)
       ELSE BreakLoop([s EXCEPT !.thetabin[i] = bin], i + 1)

SetMaxResolution(s, resolution, manual_break) ==
  LET s0 == [s EXCEPT !.max_resolution = resolution,
                      !.theta_pair_begin = 1,
                      !.theta_pair_end = 1,
                      !.theta_pixel_begin = 1,
                      !.theta_pixel_end = Len(s.thetabin) + 1]
      s1 == BreakLoop(s0, 1)
  IN IF manual_break THEN [s1 EXCEPT !.manual_resolution_break = TRUE] ELSE s1

\* lines 159-163 with the loop run over every bin
SetMinResolutionAllBins(s, resolution) ==
  [s EXCEPT !.min_resolution = resolution,
            !.thetabin = AsSeq([i \in 1..Len(s.thetabin) |->
                     IF s.thetabin[i].Resolution < resolution
                     THEN [s.thetabin[i] EXCEPT !.Resolution = resolution]
                     ELSE s.thetabin[i]])]

SetMinResolution(s, resolution) ==
  [s EXCEPT !.min_resolution = resolution,
            !.thetabin = AsSeq([i \in 1..Len(s.thetabin) |->
                     IF i >= s.theta_pixel_begin /\ i < s.theta_pixel_end
                        /\ s.thetabin[i].Resolution < resolution
                     THEN [s.thetabin[i] EXCEPT !.Resolution = resolution]
                     ELSE s.thetabin[i]])]

\* lines 167-180: the cap chosen from the catalog size and the area
AutoCap(n_obj, area) ==
  IF area > 500
  THEN LET m0 == 512
           m1 == IF n_obj < 500000 THEN 64 ELSE m0
           m2 == IF (n_obj > 500000) /\ (n_obj < 2000000) THEN 128 ELSE m1
           m3 == IF (n_obj > 2000000) /\ (n_obj < 10000000) THEN 256 ELSE m2
       IN m3
  ELSE LET m0 == 2048
           m1 == IF n_obj < 500000 THEN 256 ELSE m0
           m2 == IF (n_obj > 500000) /\ (n_obj < 2000000) THEN 512 ELSE m1
           m3 == IF (n_obj > 2000000) /\ (n_obj < 10000000) THEN 1024 ELSE m2
       IN m3

AutoMaxResolution(s, n_obj, area) ==
  SetMaxResolution(s, AutoCap(n_obj, area), FALSE)

UseOnlyPixels(s) ==
  [AssignBinResolutions(s, MaxPixelResolution) EXCEPT
     !.theta_pixel_begin = 1,
     !.theta_pixel_end = Len(s.thetabin) + 1,
     !.theta_pair_begin = 1,
     !.theta_pair_end = 1]

UseOnlyPairs(s) ==
  [s EXCEPT !.theta_pixel_begin = Len(s.thetabin) + 1,
            !.theta_pixel_end = Len(s.thetabin) + 1,
            !.theta_pair_begin = 1,
            !.theta_pair_end = Len(s.thetabin) + 1,
            !.thetabin = AsSeq([i \in 1..Len(s.thetabin) |->
                                  [s.thetabin[i] EXCEPT !.Resolution = 0]]),
            !.manual_resolution_break = TRUE]

\* lines 52-76: the object once the bins are in place
Constructed(bins, assign_resolutions) ==
  LET s0 == [thetabin |-> bins,
             theta_min |-> bins[1].ThetaMin,
             theta_max |-> bins[Len(bins)].ThetaMax,
             theta_pixel_begin |-> Len(bins) + 1,
             theta_pixel_end |-> Len(bins) + 1,
             theta_pair_begin |-> 1,
             theta_pair_end |-> Len(bins) + 1,
             min_resolution |-> HPixResolution,
             max_resolution |-> HPixResolution,
             regionation_resolution |-> 0,
             n_region |-> 0,
             manual_resolution_break |-> FALSE]
  IN IF assign_resolutions
     THEN [AssignBinResolutions(s0, MaxPixelResolution) EXCEPT
             !.theta_pixel_begin = 1,
             !.theta_pixel_end = Len(bins) + 1,
             !.theta_pair_begin = 1,
             !.theta_pair_end = 1]
     ELSE s0

---------------------------------------------------------------------------
(* Region bookkeeping and the accessors by resolution, lines 189-200 and   *)
(* 934-968.                                                                *)

InitializeRegions(s, n_regions) ==
  [s EXCEPT !.n_region = n_regions,
            !.thetabin = AsSeq([i \in 1..Len(s.thetabin) |->
                                  [s.thetabin[i] EXCEPT !.NRegion = n_regions]])]

ClearRegions(s) ==
  [s EXCEPT !.n_region = 0,
            !.regionation_resolution = 0,
            !.thetabin = AsSeq([i \in 1..Len(s.thetabin) |->
                                  [s.thetabin[i] EXCEPT !.NRegion = 0]])]

\* std::lower_bound over the bins [first, first + len) for the comparator
RECURSIVE LowerBound(_, _, _, _)
LowerBound(bins, first, len, value) ==
  IF len <= 0 THEN first
  ELSE LET half == len \div 2
           middle == first + half
       IN IF ReverseResolutionOrder(bins[middle], value)
          THEN LowerBound(bins, middle + 1, len - half - 1, value)
          ELSE LowerBound(bins, first, half, value)

\* std::upper_bound over the bins [first, first + len) for the comparator
RECURSIVE UpperBound(_, _, _, _)
UpperBound(bins, first, len, value) ==
  IF len <= 0 THEN first
  ELSE LET half == len \div 2
           middle == first + half
       IN IF ReverseResolutionOrder(value, bins[middle])
          THEN UpperBound(bins, first, half, value)
          ELSE UpperBound(bins, middle + 1, len - half - 1, value)

\* lines 935-937 with HPixResolution itself turned away
NotAbovePixelResolution(resolution) ==
  (resolution <= HPixResolution) \/ (resolution > MaxPixelResolution)
  \/ (resolution % 2 # 0)

\* lines 935-937: the resolution is not one a pixel-based bin can have
NotAPixelResolution(resolution) ==
  (resolution < HPixResolution) \/ (resolution > MaxPixelResolution)
  \/ (resolution % 2 # 0)

Begin(s, resolution) ==
  IF NotAPixelResolution(resolution)
  THEN (IF resolution = 0 THEN s.theta_pair_begin ELSE 1)
  ELSE LowerBound(s.thetabin, s.theta_pixel_begin,
                  Len(s.thetabin) + 1 - s.theta_pixel_begin,
                  [AngularBin EXCEPT !.Resolution = resolution])

End(s, resolution) ==
  IF NotAPixelResolution(resolution)
  THEN (IF resolution = 0 THEN s.theta_pair_end ELSE Len(s.thetabin) + 1)
  ELSE UpperBound(s.thetabin, s.theta_pixel_begin,
                  Len(s.thetabin) + 1 - s.theta_pixel_begin,
                  [AngularBin EXCEPT !.Resolution = resolution])

---------------------------------------------------------------------------
(* The accessors of the angular range at resolution 0, lines 840-932.      *)

\* lines 845-846, 892-893: the position ThetaMin(0) and Sin2ThetaMin(0)
\* read through theta_pair_begin_
PairBeginRead(s) == s.theta_pair_begin

\* lines 868-869, 915-916: the position ThetaMax(0) and Sin2ThetaMax(0)
\* read through theta_pair_end_
PairEndRead(s) == s.theta_pair_end

\* the position is one of the bin sequence
Dereferenceable(s, position) == position \in 1..Len(s.thetabin)

\* lines 862-883: what ThetaMax(0) can return, theta_pair_end_->ThetaMin();
\* a read past the end of the bins returns whatever lies there
ThetaMaxOfPairs(s) ==
  IF Dereferenceable(s, PairEndRead(s))
  THEN {s.thetabin[PairEndRead(s)].ThetaMin}
  ELSE {ZeroTheta} \cup {s.thetabin[i].ThetaMin : i \in 1..Len(s.thetabin)}

\* lines 840-860: what ThetaMin(0) can return, theta_pair_begin_->ThetaMin()
ThetaMinOfPairs(s) ==
  IF Dereferenceable(s, PairBeginRead(s))
  THEN {s.thetabin[PairBeginRead(s)].ThetaMin}
  ELSE {ZeroTheta} \cup {s.thetabin[i].ThetaMin : i \in 1..Len(s.thetabin)}

---------------------------------------------------------------------------
(* The pixel sweep, lines 378-410 and 483-525.                             *)

\* lines 391-392: the resolutions of the coarser scalar fields, in the order
\* they are built.  With min_resolution = 0 the loop variable reaches 0 and
\* stays there: the sequence is cut at its first 0.
RECURSIVE Halvings(_, _)
Halvings(resolution, min_resolution) ==
  IF resolution < min_resolution THEN <<>>
  ELSE IF resolution = 0 THEN <<0>>
  ELSE <<resolution>> \o Halvings(resolution \div 2, min_resolution)

\* the resolutions of all scalar fields of one sweep, the first one included
SweepResolutions(s, map_resolution) ==
  <<map_resolution>> \o Halvings(map_resolution \div 2, s.min_resolution)

\* lines 383-384, 397-398: the bins each scalar field correlates, from
\* Begin(resolution) up to End(resolution)
SweepRanges(s, visited) ==
  AsSeq([k \in 1..Len(visited) |->
           <<Begin(s, visited[k]), End(s, visited[k])>>])

\* the scalar fields of the sweep that correlate bin i
Hits(ranges, i) ==
  {k \in 1..Len(ranges) : ranges[k][1] <= i /\ i < ranges[k][2]}

\* what a sweep over the fields of the resolutions visited did: how many
\* fields correlated each bin, of which resolutions, and whether it returned
SweepTrace(s, visited, ranges) ==
  [visited |-> visited,
   corr |-> AsSeq([i \in 1..Len(s.thetabin) |-> Cardinality(Hits(ranges, i))]),
   field |-> AsSeq([i \in 1..Len(s.thetabin) |->
                      {visited[k] : k \in Hits(ranges, i)}]),
   returned |-> s.min_resolution # 0]

SweepOver(s, visited) == SweepTrace(s, visited, SweepRanges(s, visited))

PixelSweep(s, map_resolution) ==
  SweepOver(s, SweepResolutions(s, map_resolution))

NoSweep == [visited |-> <<>>, corr |-> <<>>, field |-> <<>>, returned |-> TRUE]

---------------------------------------------------------------------------
(* The drivers, lines 206-337.                                             *)

\* 1.0 * a * b is a product of doubles, exact for two 32-bit counts; it is
\* kept here as <<high, low>> in base Limb * Limb
Limb == 1000

Product(a, b) ==
  LET a1 == a \div Limb
      a0 == a % Limb
      b1 == b \div Limb
      b0 == b % Limb
      cross == a1 * b0 + a0 * b1
      low == (cross % Limb) * Limb + a0 * b0
  IN <<a1 * b1 + cross \div Limb + low \div (Limb * Limb), low % (Limb * Limb)>>

ProductLE(p, q) == p[1] < q[1] \/ (p[1] = q[1] /\ p[2] <= q[2])

\* static_cast<uint32_t>(sqrt(x)): the largest r with r * r <= x, searched
\* between lo and hi
RECURSIVE SqrtSearch(_, _, _)
SqrtSearch(lo, hi, x) ==
  IF lo >= hi THEN lo
  ELSE LET mid == (lo + hi + 1) \div 2
       IN IF ProductLE(Product(mid, mid), x) THEN SqrtSearch(mid, hi, x)
          ELSE SqrtSearch(lo, mid - 1, x)

\* lines 228, 298: static_cast<uint32_t>(sqrt(1.0 * size_a * size_b))
TruncatedSqrt(size_a, size_b) ==
  SqrtSearch(0, Max(size_a, size_b), Product(size_a, size_b))

\* lines 228-232: the catalog size and area FindCrossCorrelation hands on
CrossAutoArgs(size_a, size_b, map_a, map_b) ==
  [n_obj |-> TruncatedSqrt(size_a, size_b),
   area |-> IF map_b.Area < map_a.Area THEN map_b.Area ELSE map_a.Area]

\* lines 298-300: the same for FindCrossCorrelationWithRegions
CrossRegionAutoArgs(size_a, size_b, map_a, map_b) ==
  [n_obj |-> TruncatedSqrt(size_a, size_b),
   area |-> map_a.Area]

\* lines 210-211, 227-233 without the test of manual_resolution_break_
AutoBreakAlways(s, args) == AutoMaxResolution(s, args.n_obj, args.area)

\* lines 210-211, 227-233: the break is chosen unless it was set by hand
AutoBreak(s, args) ==
  IF ~s.manual_resolution_break
  THEN AutoMaxResolution(s, args.n_obj, args.area)
  ELSE s

\* lines 213-218, 235-241: which estimators run, given the pixel sweep's trace
EstimatorsAfter(s, sweep) ==
  [pixel_ran |-> s.theta_pixel_begin # s.theta_pixel_end,
   pair_ran |-> sweep.returned /\ s.theta_pair_begin # s.theta_pair_end,
   sweep |-> sweep]

Estimators(s) ==
  EstimatorsAfter(s, IF s.theta_pixel_begin # s.theta_pixel_end
                     THEN PixelSweep(s, s.max_resolution)
                     ELSE NoSweep)

\* lines 255-257 without the test of line 256
RegionatedMapAnew(map, outcome) ==
  [map EXCEPT !.NRegion = outcome.n, !.RegionResolution = outcome.resolution]

\* Map::InitializeRegions as called on lines 255-257: a footprint without
\* regions is regionated, into the count and at the resolution it can manage
RegionatedMap(map, outcome) ==
  IF map.NRegion = 0
  THEN [map EXCEPT !.NRegion = outcome.n, !.RegionResolution = outcome.resolution]
  ELSE map

\* lines 274, 322 with the comparison against the library's maximum
RegionationExceedsLibraryMax(s) ==
  s.regionation_resolution > MaxPixelResolution

\* lines 274, 322: the regions are finer than the finest scalar field
RegionationExceedsMax(s) == s.regionation_resolution > s.max_resolution

\* lines 270-272, 318-320: the pixel bins are at least as fine as the regions
RaiseToRegions(s) ==
  IF s.regionation_resolution > s.min_resolution
  THEN SetMinResolution(s, s.regionation_resolution)
  ELSE s

\* lines 274-280, 322-328: regions finer than every scalar field leave only
\* the pair-based estimator
SwitchIfTooFine(s) == IF RegionationExceedsMax(s) THEN UseOnlyPairs(s) ELSE s

\* lines 266-280, 314-328: the engine adopts the footprint's regionation
AdoptRegions(s, map) ==
  SwitchIfTooFine(RaiseToRegions(InitializeRegions(
    [s EXCEPT !.regionation_resolution = map.RegionResolution],
    map.NRegion)))

---------------------------------------------------------------------------
(* The configuration operations as actions.  ac is the AngularCorrelation  *)
(* object; last records the most recent call and what it was given.        *)

\* the constructor calls explored: <<theta_min, theta_max, bins_per_decade>>
CtorArgs == {<<-15, 15, 6>>, <<-40, 10, 3>>, <<-30, 30, 1>>}

\* the linear constructor calls explored: <<n_bins, theta_min, theta_max>>,
\* the angles in tenths of a degree
LinearCtorArgs == {<<3, 1, 4>>}

MaxResolutionArgs == {32, 64, 256, 2048}

MinResolutionArgs == {0, 64, 512}

AssignMaxArgs == {128, MaxPixelResolution}

NObjArgs == {499999, 500000, 500001, 1999999, 2000000, 2000001,
             9999999, 10000000, 10000001}

AreaArgs == {100, 500, 501}

NoCall == [op |-> "Constructor", assigned |-> FALSE, returned |-> TRUE,
           resolution |-> 0, manual_break |-> FALSE, n_obj |-> 0, area |-> 0,
           auto |-> FALSE, sizes |-> <<0, 0>>, n_regions |-> 0,
           regionated |-> FALSE, pixel_ran |-> FALSE, pair_ran |-> FALSE,
           visited |-> <<>>, corr |-> <<>>, field |-> <<>>]

Call(op) == [NoCall EXCEPT !.op = op, !.assigned = last.assigned]

IdleMaps == [a |-> [Area |-> 0, NRegion |-> 0, RegionResolution |-> 0],
             b |-> [Area |-> 0, NRegion |-> 0, RegionResolution |-> 0],
             calls |-> 0]

IdleCtor == [pc |-> "idle"]

IdlePair == [pc |-> "idle"]

\* the bins a constructor can leave
CtorBins ==
  {LogBins(c[1], c[2], c[3]) : c \in CtorArgs}
  \cup {LinearBins(c[1], c[2], c[3]) : c \in LinearCtorArgs}

Init ==
  /\ \E bins \in CtorBins, assign_resolutions \in BOOLEAN :
       /\ ac = Constructed(bins, assign_resolutions)
       /\ last = [NoCall EXCEPT !.assigned = assign_resolutions]
  /\ maps = IdleMaps
  /\ ctor = IdleCtor
  /\ pr = IdlePair

DoSetMaxResolution ==
  /\ last.returned
  /\ \E resolution \in MaxResolutionArgs, manual_break \in BOOLEAN :
       /\ ac' = SetMaxResolution(ac, resolution, manual_break)
       /\ last' = [Call("SetMaxResolution") EXCEPT
                     !.resolution = resolution, !.manual_break = manual_break]
  /\ UNCHANGED <<maps, ctor, pr>>

DoSetMinResolution ==
  /\ last.returned
  /\ \E resolution \in MinResolutionArgs :
       /\ ac' = SetMinResolution(ac, resolution)
       /\ last' = [Call("SetMinResolution") EXCEPT !.resolution = resolution]
  /\ UNCHANGED <<maps, ctor, pr>>

DoAutoMaxResolution ==
  /\ last.returned
  /\ \E n_obj \in NObjArgs, area \in AreaArgs :
       /\ ac' = AutoMaxResolution(ac, n_obj, area)
       /\ last' = [Call("AutoMaxResolution") EXCEPT
                     !.n_obj = n_obj, !.area = area,
                     !.resolution = AutoCap(n_obj, area)]
  /\ UNCHANGED <<maps, ctor, pr>>

DoAssignBinResolutions ==
  /\ last.returned
  /\ \E max_resolution \in AssignMaxArgs :
       /\ ac' = AssignBinResolutions(ac, max_resolution)
       /\ last' = [Call("AssignBinResolutions") EXCEPT
                     !.resolution = max_resolution]
  /\ UNCHANGED <<maps, ctor, pr>>

DoUseOnlyPixels ==
  /\ last.returned
  /\ ac' = UseOnlyPixels(ac)
  /\ last' = Call("UseOnlyPixels")
  /\ UNCHANGED <<maps, ctor, pr>>

DoUseOnlyPairs ==
  /\ last.returned
  /\ ac' = UseOnlyPairs(ac)
  /\ last' = Call("UseOnlyPairs")
  /\ UNCHANGED <<maps, ctor, pr>>

Next ==
  \/ DoSetMaxResolution
  \/ DoSetMinResolution
  \/ DoAutoMaxResolution
  \/ DoAssignBinResolutions
  \/ DoUseOnlyPixels
  \/ DoUseOnlyPairs

Spec == Init /\ [][Next]_vars

---------------------------------------------------------------------------
(* The drivers as actions.  maps.a and maps.b are the two footprints; a    *)
(* catalog is its number of objects.                                       *)

GalaxySizes == {400000, 9000000}

\* the number of driver calls followed on one object
MaxCalls == 2

\* the areas of the two footprints, in square degrees
MapAreas == {<<100, 1000>>, <<1000, 100>>}

\* the resolutions a footprint's regionation can come out with
RegionResolutions == {16, 128}

\* the largest number of regions the footprint can be cut into
MaxRegions == 3

\* a footprint nobody has regionated yet
Footprint(area) == [Area |-> area, NRegion |-> 0, RegionResolution |-> 0]

FindCtorArgs == {<<-40, 10, 3>>}

InitFind ==
  /\ \E c \in FindCtorArgs, assign_resolutions \in BOOLEAN :
       /\ ac = Constructed(LogBins(c[1], c[2], c[3]), assign_resolutions)
       /\ last = [NoCall EXCEPT !.assigned = assign_resolutions]
  /\ \E areas \in MapAreas :
       maps = [a |-> Footprint(areas[1]), b |-> Footprint(areas[2]),
               calls |-> 0]
  /\ ctor = IdleCtor
  /\ pr = IdlePair

\* the record of a driver call: what AutoMaxResolution was given, if it was
\* called, and what the estimators did
DriverCall(call, s, args, est) ==
  [call EXCEPT
     !.auto = ~s.manual_resolution_break,
     !.n_obj = IF s.manual_resolution_break THEN 0 ELSE args.n_obj,
     !.area = IF s.manual_resolution_break THEN 0 ELSE args.area,
     !.resolution = IF s.manual_resolution_break THEN 0
                    ELSE AutoCap(args.n_obj, args.area),
     !.pixel_ran = est.pixel_ran,
     !.pair_ran = est.pair_ran,
     !.visited = est.sweep.visited,
     !.corr = est.sweep.corr,
     !.field = est.sweep.field,
     !.returned = est.sweep.returned]

\* the engine is left as s1, after the estimators ran on it
Driven(call, args, s1) ==
  /\ ac' = s1
  /\ last' = DriverCall(call, ac, args, Estimators(s1))

\* lines 206-219 and 221-242
Drive(op, sizes, args) ==
  /\ Driven([Call(op) EXCEPT !.sizes = sizes], args, AutoBreak(ac, args))
  /\ maps' = [maps EXCEPT !.calls = @ + 1]

DoFindAutoCorrelation ==
  /\ last.returned
  /\ maps.calls < MaxCalls
  /\ \E size \in GalaxySizes :
       Drive("FindAutoCorrelation", <<size, size>>,
             [n_obj |-> size, area |-> maps.a.Area])
  /\ UNCHANGED <<ctor, pr>>

DoFindCrossCorrelation ==
  /\ last.returned
  /\ maps.calls < MaxCalls
  /\ \E size_a \in GalaxySizes, size_b \in GalaxySizes :
       Drive("FindCrossCorrelation", <<size_a, size_b>>,
             CrossAutoArgs(size_a, size_b, maps.a, maps.b))
  /\ UNCHANGED <<ctor, pr>>

\* the outcomes of regionating a footprint into n_regions pieces
RegionOutcomes(n_regions) ==
  [n : {Min(n_regions, MaxRegions)}, resolution : RegionResolutions]

\* line 252, 303: 0 regions asked for means twice the number of bins
RequestedRegions(s, n_regions) ==
  IF n_regions = 0 THEN (2 * Len(s.thetabin)) % 65536 ELSE n_regions

\* the footprint is left as map, regionated
DrivenWithRegions(op, sizes, n_regions, args, map) ==
  /\ Driven([Call(op) EXCEPT !.sizes = sizes,
                             !.n_regions = n_regions,
                             !.regionated = (maps.a.NRegion = 0)],
            args, AdoptRegions(AutoBreak(ac, args), map))
  /\ maps' = [maps EXCEPT !.a = map, !.calls = @ + 1]

\* lines 244-288 and 290-337
DriveWithRegions(op, sizes, n_regions, args) ==
  \E outcome \in RegionOutcomes(RequestedRegions(ac, n_regions)) :
    DrivenWithRegions(op, sizes, n_regions, args, RegionatedMap(maps.a, outcome))

DoFindAutoCorrelationWithRegions ==
  /\ last.returned
  /\ maps.calls < MaxCalls
  /\ \E size \in GalaxySizes, n_regions \in {0, MaxRegions} :
       DriveWithRegions("FindAutoCorrelationWithRegions", <<size, size>>,
                        n_regions, [n_obj |-> size, area |-> maps.a.Area])
  /\ UNCHANGED <<ctor, pr>>

DoFindCrossCorrelationWithRegions ==
  /\ last.returned
  /\ maps.calls < MaxCalls
  /\ \E size_a \in GalaxySizes, size_b \in GalaxySizes,
        n_regions \in {0, MaxRegions} :
       DriveWithRegions("FindCrossCorrelationWithRegions", <<size_a, size_b>>,
                        n_regions,
                        CrossRegionAutoArgs(size_a, size_b, maps.a, maps.b))
  /\ UNCHANGED <<ctor, pr>>

NextFind ==
  \/ DoSetMaxResolution
  \/ DoSetMinResolution
  \/ DoFindAutoCorrelation
  \/ DoFindCrossCorrelation
  \/ DoFindAutoCorrelationWithRegions
  \/ DoFindCrossCorrelationWithRegions

SpecFind == InitFind /\ [][NextFind]_vars

\* ClearRegions()
DoClearRegions ==
  /\ last.returned
  /\ ac' = ClearRegions(ac)
  /\ last' = Call("ClearRegions")
  /\ UNCHANGED <<maps, ctor, pr>>

\* the drivers with and without regions, and ClearRegions between them
NextRegions ==
  \/ DoClearRegions
  \/ DoFindAutoCorrelation
  \/ DoFindCrossCorrelation
  \/ DoFindAutoCorrelationWithRegions
  \/ DoFindCrossCorrelationWithRegions

SpecRegions == InitFind /\ [][NextRegions]_vars

\* the drivers without regions on an object told to use one estimator only
NextOnly ==
  \/ DoUseOnlyPixels
  \/ DoUseOnlyPairs
  \/ DoFindAutoCorrelation
  \/ DoFindCrossCorrelation

SpecOnly == InitFind /\ [][NextOnly]_vars

---------------------------------------------------------------------------
(* The log-spaced constructor one loop iteration at a time, lines 33-77.   *)
(* ctor holds the constructor's arguments and locals; ctor.walked lists    *)
(* the values unit_double has taken.                                       *)

\* log10 of the theta_min and theta_max handed to the constructor
LogThetaMins == {-90, -47, -31, 0}

LogThetaMaxs == {-45, -30, 7, 30}

BinsPerDecade == {1, 2, 3, 6}

\* the object before the constructor has built anything
Unconstructed ==
  [thetabin |-> <<>>, theta_min |-> 0, theta_max |-> 0,
   theta_pixel_begin |-> 1, theta_pixel_end |-> 1,
   theta_pair_begin |-> 1, theta_pair_end |-> 1,
   min_resolution |-> HPixResolution, max_resolution |-> HPixResolution,
   regionation_resolution |-> 0, n_region |-> 0,
   manual_resolution_break |-> FALSE]

\* lines 36-37: the constructor has been entered
InitLog ==
  /\ \E theta_min \in LogThetaMins, theta_max \in LogThetaMaxs,
        bins_per_decade \in BinsPerDecade, assign_resolutions \in BOOLEAN :
       /\ theta_min < theta_max
       /\ ctor = [pc |-> "loop",
                  theta_min |-> theta_min,
                  theta_max |-> theta_max,
                  bins_per_decade |-> bins_per_decade,
                  assign_resolutions |-> assign_resolutions,
                  unit_double |-> FloorLog10(theta_min) * bins_per_decade,
                  theta |-> Pow10(FloorLog10(theta_min) * bins_per_decade,
                                  bins_per_decade),
                  walked |-> <<>>]
       /\ last = [NoCall EXCEPT !.assigned = assign_resolutions,
                                !.returned = FALSE]
  /\ ac = Unconstructed
  /\ maps = IdleMaps
  /\ pr = IdlePair

\* lines 39-50: one iteration that pushes a bin
LogEmit ==
  /\ ctor.pc = "loop"
  /\ LogLoopGuard(ctor.theta, ctor.theta_max)
  /\ LogEmitGuard(ctor.theta, ctor.theta_min, ctor.theta_max)
  /\ ac' = [ac EXCEPT !.thetabin =
              Append(@, LogBin(ctor.unit_double, ctor.bins_per_decade))]
  /\ ctor' = [ctor EXCEPT
                !.unit_double = @ + 1,
                !.theta = Pow10(ctor.unit_double + 1, ctor.bins_per_decade),
                !.walked = Append(@, ctor.unit_double)]
  /\ UNCHANGED <<last, maps, pr>>

\* lines 39-50: one iteration that pushes nothing
LogSkip ==
  /\ ctor.pc = "loop"
  /\ LogLoopGuard(ctor.theta, ctor.theta_max)
  /\ ~LogEmitGuard(ctor.theta, ctor.theta_min, ctor.theta_max)
  /\ ctor' = [ctor EXCEPT
                !.unit_double = @ + 1,
                !.theta = Pow10(ctor.unit_double + 1, ctor.bins_per_decade),
                !.walked = Append(@, ctor.unit_double)]
  /\ UNCHANGED <<ac, last, maps, pr>>

\* lines 52-76: the loop is over and there are bins to read the ends from
LogFinish ==
  /\ ctor.pc = "loop"
  /\ ~LogLoopGuard(ctor.theta, ctor.theta_max)
  /\ ac.thetabin # <<>>
  /\ ac' = Constructed(ac.thetabin, ctor.assign_resolutions)
  /\ ctor' = [ctor EXCEPT !.pc = "done"]
  /\ last' = [last EXCEPT !.returned = TRUE]
  /\ UNCHANGED <<maps, pr>>

\* what thetabin_[0] and thetabin_[size() - 1] may read off an empty vector
StrayThetas == {-1, 0}

\* lines 52-55 with no bin pushed: the reads are outside the vector; the
\* constructor stops there or goes on with whatever they returned
LogFinishEmpty ==
  /\ ctor.pc = "loop"
  /\ ~LogLoopGuard(ctor.theta, ctor.theta_max)
  /\ ac.thetabin = <<>>
  /\ \/ /\ ctor' = [ctor EXCEPT !.pc = "fault"]
        /\ UNCHANGED <<ac, last>>
     \/ /\ \E stray_min \in StrayThetas, stray_max \in StrayThetas :
             ac' = [ac EXCEPT !.theta_min = stray_min, !.theta_max = stray_max]
        /\ ctor' = [ctor EXCEPT !.pc = "done"]
        /\ last' = [last EXCEPT !.returned = TRUE]
  /\ UNCHANGED <<maps, pr>>

NextLog ==
  \/ LogEmit
  \/ LogSkip
  \/ LogFinish
  \/ LogFinishEmpty

SpecLog == InitLog /\ [][NextLog]_vars

---------------------------------------------------------------------------
(* The linear constructor one loop iteration at a time, lines 79-117.      *)
(* ctor holds the arguments, the loop index and the bins as the loop       *)
(* builds them, their angles in tenths of a degree; the midpoint of a bin  *)
(* is kept as the fraction num / den.                                      *)

\* the calls explored: the angles are whole tenths of a degree and n_bins
\* divides theta_max - theta_min, so that dtheta is a whole number too
LinearNBins == {1, 2, 3}

LinearThetaMins == {1, 2, 3}

LinearThetaMaxs == {2, 3, 4, 5, 6, 7, 8}

\* a default-constructed AngularBin, angles in tenths of a degree
LinearAngularBin == [ThetaMin |-> 0, ThetaMax |-> 0,
                     Theta |-> [num |-> 0, den |-> 1]]

SetThetaMin(bin, theta_min) == [bin EXCEPT !.ThetaMin = theta_min]

\* line 88: theta = 0.5 * (ThetaMin() + ThetaMax())
SetThetaToMiddle(bin) ==
  [bin EXCEPT !.Theta = [num |-> bin.ThetaMin + bin.ThetaMax, den |-> 2]]

\* lines 85-89: the bin of index i
LinearPushed(i, theta_min, dtheta) ==
  SetThetaToMiddle(SetThetaMin(SetThetaMin(LinearAngularBin,
                                           theta_min + i * dtheta),
                               theta_min + (i + 1) * dtheta))

\* lines 79-82: the constructor has been entered
InitLinear ==
  /\ \E n_bins \in LinearNBins, theta_min \in LinearThetaMins,
        theta_max \in LinearThetaMaxs, assign_resolutions \in BOOLEAN :
       /\ theta_min < theta_max
       /\ (theta_max - theta_min) % n_bins = 0
       /\ ctor = [pc |-> "linear_loop",
                  n_bins |-> n_bins,
                  theta_min |-> theta_min,
                  theta_max |-> theta_max,
                  assign_resolutions |-> assign_resolutions,
                  dtheta |-> (theta_max - theta_min) \div n_bins,
                  i |-> 0,
                  bins |-> <<>>]
       /\ last = [NoCall EXCEPT !.assigned = assign_resolutions,
                                !.returned = FALSE]
  /\ ac = Unconstructed
  /\ maps = IdleMaps
  /\ pr = IdlePair

\* lines 84-90: one iteration of the loop
LinearPush ==
  /\ ctor.pc = "linear_loop"
  /\ ctor.i < ctor.n_bins
  /\ ctor' = [ctor EXCEPT
                !.bins = Append(@, LinearPushed(ctor.i, ctor.theta_min,
                                                ctor.dtheta)),
                !.i = @ + 1]
  /\ UNCHANGED <<ac, last, maps, pr>>

\* lines 92-116: the loop is over; the object holds the log10 of the angles
LinearFinish ==
  /\ ctor.pc = "linear_loop"
  /\ ~(ctor.i < ctor.n_bins)
  /\ ac' = Constructed(LinearBins(ctor.n_bins, ctor.theta_min, ctor.theta_max),
                       ctor.assign_resolutions)
  /\ ctor' = [ctor EXCEPT !.pc = "done"]
  /\ last' = [last EXCEPT !.returned = TRUE]
  /\ UNCHANGED <<maps, pr>>

NextLinear ==
  \/ LinearPush
  \/ LinearFinish

SpecLinear == InitLinear /\ [][NextLinear]_vars

---------------------------------------------------------------------------
(* The pair-based estimator, FindPairAutoCorrelation, lines 527-646, one   *)
(* loop at a time.  pr.acc[i] holds the accumulators of bin i; a real is   *)
(* kept as the fraction num / den.  What a tree query adds to a bin's      *)
(* scratch weight is an input.  pr.gg[i], pr.gr[i] and pr.rr[i] list what  *)
(* the queries of the galaxy tree, of the random trees with the catalog    *)
(* and of the random trees with the random points added for bin i.         *)

Real(n) == [num |-> n, den |-> 1]

\* x + w for a whole number w
Plus(x, w) == [num |-> x.num + w * x.den, den |-> x.den]

\* x / w for a whole number w; a den of 0 stands for the quotient by 0.0
Over(x, w) == [num |-> x.num, den |-> x.den * w]

\* AngularBin: the accumulators of a bin nothing has been added to
NoWeights == [weight |-> 0, gal_gal |-> Real(0), gal_rand |-> Real(0),
              rand_gal |-> Real(0), rand_rand |-> Real(0)]

\* TreeMap::FindWeightedPairs(points, bin): the weight found goes to the
\* bin's scratch weight
AddToWeight(b, w) == [b EXCEPT !.weight = @ + w]

MoveWeightToGalGal(b) ==
  [b EXCEPT !.gal_gal = Plus(@, b.weight), !.weight = 0]

MoveWeightToGalRand(b, move_to_rand_gal) ==
  [b EXCEPT !.gal_rand = Plus(@, b.weight),
            !.rand_gal = IF move_to_rand_gal THEN Plus(@, b.weight) ELSE @,
            !.weight = 0]

MoveWeightToRandRand(b) ==
  [b EXCEPT !.rand_rand = Plus(@, b.weight), !.weight = 0]

ResetGalRand(b) == [b EXCEPT !.gal_rand = Real(0)]

ResetRandGal(b) == [b EXCEPT !.rand_gal = Real(0)]

ResetRandRand(b) == [b EXCEPT !.rand_rand = Real(0)]

RescaleGalRand(b, w) == [b EXCEPT !.gal_rand = Over(@, w)]

RescaleRandGal(b, w) == [b EXCEPT !.rand_gal = Over(@, w)]

RescaleRandRand(b, w) == [b EXCEPT !.rand_rand = Over(@, w)]

\* the weights one tree query can find for one bin
PairWeights == {1, 3}

\* the values of random_iterations explored: 0 .. MaxRandIter
MaxRandIter == 2

\* the accumulators of a bin after an earlier call with one random iteration
EarlierWeights == [weight |-> 0, gal_gal |-> Real(3), gal_rand |-> Real(1),
                   rand_gal |-> Real(1), rand_rand |-> Real(3)]

\* the objects the estimator is run on: every bin pair-based, or the break
\* set by hand between the two bins
PairObjects ==
  {Constructed(LogBins(-30, 30, 1), FALSE),
   SetMaxResolution(Constructed(LogBins(-30, 30, 1), TRUE), 64, TRUE)}

\* the bins of [theta_pair_begin_, theta_pair_end_)
PairRange(s) == {i \in 1..Len(s.thetabin) :
                   s.theta_pair_begin <= i /\ i < s.theta_pair_end}

\* lines 531-549: the call is entered and the galaxy tree is built
InitPair ==
  /\ ac \in PairObjects
  /\ last = [NoCall EXCEPT !.op = "FindPairAutoCorrelation",
                           !.returned = FALSE]
  /\ \E n_region \in {0, MaxRegions} :
       maps = [IdleMaps EXCEPT !.a.Area = 100, !.a.NRegion = n_region,
                               !.a.RegionResolution =
                                  IF n_region = 0 THEN 0 ELSE 128]
  /\ ctor = IdleCtor
  /\ \E random_iterations \in 0..MaxRandIter,
        held \in {NoWeights, EarlierWeights} :
       pr = [pc |-> "galaxy_tree",
             random_iterations |-> random_iterations,
             rand_iter |-> 0,
             before |-> [i \in 1..Len(ac.thetabin) |-> held],
             acc |-> [i \in 1..Len(ac.thetabin) |-> held],
             gg |-> [i \in 1..Len(ac.thetabin) |-> <<>>],
             gr |-> [i \in 1..Len(ac.thetabin) |-> <<>>],
             rr |-> [i \in 1..Len(ac.thetabin) |-> <<>>]]

\* lines 554-560, 606-612: TreeMap::InitializeRegions fails on a regionated
\* footprint and the program exits
TreeRegionsFail ==
  /\ pr.pc \in {"galaxy_tree", "random_tree"}
  /\ maps.a.NRegion > 0
  /\ pr' = [pr EXCEPT !.pc = "exit"]
  /\ UNCHANGED <<ac, last, maps, ctor>>

\* the weights the queries of one tree find, bin by bin
Found == [1..Len(ac.thetabin) -> PairWeights]

\* lines 563-584: the galaxy-galaxy loop, then the loop that zeroes the
\* random counts
GalaxyGalaxy ==
  /\ pr.pc = "galaxy_tree"
  /\ \E found \in Found :
       pr' = [pr EXCEPT
                !.pc = "random_loop",
                !.acc = AsSeq([i \in 1..Len(ac.thetabin) |->
                           IF i \in PairRange(ac)
                           THEN ResetRandRand(ResetRandGal(ResetGalRand(
                                  MoveWeightToGalGal(AddToWeight(@[i], found[i])))))
                           ELSE @[i]]),
                !.gg = AsSeq([i \in 1..Len(ac.thetabin) |->
                          IF i \in PairRange(ac) THEN Append(@[i], found[i])
                          ELSE @[i]])]
  /\ UNCHANGED <<ac, last, maps, ctor>>

\* line 587 with the comparison rand_iter <= random_iterations
RandomLoopGuardInclusive(rand_iter, random_iterations) ==
  rand_iter <= random_iterations

\* line 587: rand_iter < random_iterations
RandomLoopGuard(rand_iter, random_iterations) == rand_iter < random_iterations

\* lines 587-604: another iteration starts and its random tree is built
RandomTree ==
  /\ pr.pc = "random_loop"
  /\ RandomLoopGuard(pr.rand_iter, pr.random_iterations)
  /\ pr' = [pr EXCEPT !.pc = "random_tree"]
  /\ UNCHANGED <<ac, last, maps, ctor>>

\* lines 614-637: the galaxy-random loop, the random-random loop, and the
\* increment of rand_iter
RandomPairs ==
  /\ pr.pc = "random_tree"
  /\ \E found_gr \in Found, found_rr \in Found :
       pr' = [pr EXCEPT
                !.pc = "random_loop",
                !.rand_iter = (@ + 1) % 256,
                !.acc = AsSeq([i \in 1..Len(ac.thetabin) |->
                           IF i \in PairRange(ac)
                           THEN MoveWeightToRandRand(AddToWeight(
                                  MoveWeightToGalRand(
                                    AddToWeight(@[i], found_gr[i]), TRUE),
                                  found_rr[i]))
                           ELSE @[i]]),
                !.gr = AsSeq([i \in 1..Len(ac.thetabin) |->
                          IF i \in PairRange(ac) THEN Append(@[i], found_gr[i])
                          ELSE @[i]]),
                !.rr = AsSeq([i \in 1..Len(ac.thetabin) |->
                          IF i \in PairRange(ac) THEN Append(@[i], found_rr[i])
                          ELSE @[i]])]
  /\ UNCHANGED <<ac, last, maps, ctor>>

\* lines 641-646: the random counts are rescaled and the call returns
RescaleRandoms ==
  /\ pr.pc = "random_loop"
  /\ ~RandomLoopGuard(pr.rand_iter, pr.random_iterations)
  /\ pr' = [pr EXCEPT
              !.pc = "done",
              !.acc = AsSeq([i \in 1..Len(ac.thetabin) |->
                         IF i \in PairRange(ac)
                         THEN RescaleRandRand(RescaleRandGal(RescaleGalRand(
                                @[i], pr.random_iterations),
                                pr.random_iterations), pr.random_iterations)
                         ELSE @[i]])]
  /\ last' = [last EXCEPT !.returned = TRUE]
  /\ UNCHANGED <<ac, maps, ctor>>

NextPair ==
  \/ TreeRegionsFail
  \/ GalaxyGalaxy
  \/ RandomTree
  \/ RandomPairs
  \/ RescaleRandoms

SpecPair == InitPair /\ [][NextPair]_vars

---------------------------------------------------------------------------
(* Covariance and WriteCovariance, lines 997-1073.  The bins carry what    *)
(* the estimators left in them: Wtheta[r] is the bin's w(theta) with       *)
(* region r left out, MeanWtheta their mean and WthetaError the Poisson    *)
(* error, all whole numbers here.  pr holds the locals of the call of      *)
(* WriteCovariance in progress and the lines written so far, each line as  *)
(* the pair of bin indices it was written for.                             *)

\* the values a uint8_t holds
Uint8 == 256

\* the conversion of an index to the uint8_t parameter
AsUint8(n) == n % Uint8

\* a bin with its regions' measurements
MeasuredBin(n_region, wtheta, mean_wtheta, wtheta_error) ==
  [ThetaMin |-> ZeroTheta, ThetaMax |-> ZeroTheta, Resolution |-> 0,
   NRegion |-> n_region, Wtheta |-> wtheta, MeanWtheta |-> mean_wtheta,
   WthetaError |-> wtheta_error]

\* the measured bins explored: with two regions, with three, with none
MeasuredBins ==
  {MeasuredBin(2, <<1, 3>>, 2, 1), MeasuredBin(2, <<4, 0>>, 2, 2),
   MeasuredBin(3, <<1, 2, 6>>, 3, 1), MeasuredBin(0, <<>>, 0, 3)}

\* the numbers of bins explored for an object of measured bins
FewBins == {2, 3}

\* a number of bins no uint8_t index can count up to
ManyBins == 257

\* lines 997-1005: the position bin_idx steps past begin(), end() at most
BinIterator(s, bin_idx) == 1 + Min(bin_idx, Len(s.thetabin))

\* lines 1036-1038: the term the loop adds for one region
CovarianceTerm(theta_a, theta_b, region_iter) ==
  (theta_a.Wtheta[region_iter + 1] - theta_a.MeanWtheta)
  * (theta_b.Wtheta[region_iter + 1] - theta_b.MeanWtheta)

\* lines 1035-1039: the loop over the regions
RECURSIVE CovarianceLoop(_, _, _, _, _)
CovarianceLoop(theta_a, theta_b, region_iter, n_region, covariance) ==
  IF ~(region_iter < n_region) THEN covariance
  ELSE CovarianceLoop(theta_a, theta_b, region_iter + 1, n_region,
         covariance + CovarianceTerm(theta_a, theta_b, region_iter))

\* lines 1019-1050, called with two uint8_t indices
Covariance(s, bin_idx_a, bin_idx_b) ==
  LET theta_a == s.thetabin[BinIterator(s, bin_idx_a)]
      theta_b == s.thetabin[BinIterator(s, bin_idx_b)]
  IN IF (theta_a.NRegion = theta_b.NRegion) /\ (theta_a.NRegion > 0)
     THEN LET n_region == theta_a.NRegion
          IN [num |-> CovarianceLoop(theta_a, theta_b, 0, n_region, 0)
                        * (n_region - 1) * (n_region - 1),
              den |-> n_region * n_region]
     ELSE IF bin_idx_a = bin_idx_b
          THEN Real(theta_a.WthetaError * theta_a.WthetaError)
          ELSE Real(0)

\* the objects Covariance and WriteCovariance are called on: a few measured
\* bins, or ManyBins bins nothing was measured in
CovarianceObjects ==
  {[Unconstructed EXCEPT !.thetabin = bins] :
     bins \in UNION {[1..n -> MeasuredBins] : n \in FewBins}}
  \cup {[Unconstructed EXCEPT !.thetabin =
           [i \in 1..ManyBins |-> MeasuredBin(0, <<>>, 0, 3)]]}

\* the indices Covariance is called with
CovarianceArgs == {0, 1, 2, Uint8 - 1, Uint8}

\* the number of lines of output followed
MaxLines == 260

InitCov ==
  /\ ac \in CovarianceObjects
  /\ last = NoCall
  /\ maps = IdleMaps
  /\ ctor = IdleCtor
  /\ pr = IdlePair

\* a call Covariance(a, b) with a, b < NBins()
DoCovariance ==
  /\ pr.pc = "idle"
  /\ \E a \in CovarianceArgs, b \in CovarianceArgs :
       /\ a < Len(ac.thetabin)
       /\ b < Len(ac.thetabin)
       /\ last' = [op |-> "Covariance", returned |-> TRUE, a |-> a, b |-> b,
                   covariance |-> Covariance(ac, AsUint8(a), AsUint8(b))]
  /\ UNCHANGED <<ac, maps, ctor, pr>>

\* lines 1053-1058: the file is opened, or cannot be
OpenCovarianceFile ==
  /\ pr.pc = "idle"
  /\ last' = [op |-> "WriteCovariance", returned |-> FALSE]
  /\ \E is_open \in BOOLEAN :
       pr' = IF is_open
             THEN [pc |-> "inner", wrote_file |-> TRUE, theta_idx_a |-> 0,
                   theta_idx_b |-> 0, written |-> <<>>]
             ELSE [pc |-> "return", wrote_file |-> FALSE, theta_idx_a |-> 0,
                   theta_idx_b |-> 0, written |-> <<>>]
  /\ UNCHANGED <<ac, maps, ctor>>

\* lines 1060-1065: one line is written and theta_idx_b incremented
WriteCovarianceLine ==
  /\ pr.pc = "inner"
  /\ pr.theta_idx_b < Len(ac.thetabin)
  /\ Len(pr.written) < MaxLines
  /\ pr' = [pr EXCEPT
              !.written = Append(@, <<pr.theta_idx_a, pr.theta_idx_b>>),
              !.theta_idx_b = AsUint8(@ + 1)]
  /\ UNCHANGED <<ac, last, maps, ctor>>

\* lines 1059-1060: the row is over; the next one starts, if there is one
NextCovarianceRow ==
  /\ pr.pc = "inner"
  /\ ~(pr.theta_idx_b < Len(ac.thetabin))
  /\ pr' = [pr EXCEPT
              !.theta_idx_a = AsUint8(@ + 1),
              !.theta_idx_b = 0,
              !.pc = IF AsUint8(pr.theta_idx_a + 1) < Len(ac.thetabin)
                     THEN "inner" ELSE "return"]
  /\ UNCHANGED <<ac, last, maps, ctor>>

\* lines 1068-1072: the file is closed and wrote_file returned
ReturnFromWriteCovariance ==
  /\ pr.pc = "return"
  /\ pr' = [pr EXCEPT !.pc = "returned"]
  /\ last' = [last EXCEPT !.returned = TRUE]
  /\ UNCHANGED <<ac, maps, ctor>>

NextCov ==
  \/ DoCovariance
  \/ OpenCovarianceFile
  \/ WriteCovarianceLine
  \/ NextCovarianceRow
  \/ ReturnFromWriteCovariance

SpecCov == InitCov /\ [][NextCov]_vars

---------------------------------------------------------------------------
(* FindPixelCrossCorrelation(ScalarMap&, ScalarMap&), lines 483-525, one   *)
(* scalar field at a time.  pr holds the two scalar fields handed in, the  *)
(* loop's resolution, the number of coarser pairs of scalar fields created *)
(* so far and, bin by bin, how often CrossCorrelate was called on the bin. *)

\* the resolutions of the scalar fields handed in
ScalarMapResolutions == {32, 64, 256, 2048}

\* the objects the sweep is run on
PixelCrossObjects ==
  {Constructed(LogBins(-40, 10, 3), TRUE),
   SetMaxResolution(Constructed(LogBins(-40, 10, 3), TRUE), 256, TRUE),
   SetMinResolution(Constructed(LogBins(-15, 15, 6), TRUE), 64)}

\* line 484 with the test left out
ResolutionsNeverDiffer(map_a, map_b) == FALSE

\* line 484: the two scalar fields are of different resolutions
ResolutionsDiffer(map_a, map_b) == map_a.Resolution # map_b.Resolution

\* the bins' counts after the field of this resolution was correlated with
\* the bins of [Begin(resolution), End(resolution))
CrossCorrelated(corr, s, resolution) ==
  AsSeq([i \in 1..Len(corr) |->
           IF Begin(s, resolution) <= i /\ i < End(s, resolution)
           THEN corr[i] + 1 ELSE corr[i]])

InitPixelCross ==
  /\ ac \in PixelCrossObjects
  /\ last = [NoCall EXCEPT !.op = "FindPixelCrossCorrelation",
                           !.returned = FALSE]
  /\ maps = IdleMaps
  /\ ctor = IdleCtor
  /\ \E resolution_a \in ScalarMapResolutions,
        resolution_b \in ScalarMapResolutions, n_region \in {0, MaxRegions} :
       pr = [pc |-> "entry",
             map_a |-> [Resolution |-> resolution_a, NRegion |-> n_region],
             map_b |-> [Resolution |-> resolution_b, NRegion |-> n_region],
             resolution |-> 0,
             sub_maps |-> 0,
             status |-> 0,
             corr |-> [i \in 1..Len(ac.thetabin) |-> 0]]

\* lines 484-489: the resolutions differ and the program exits
PixelCrossExit ==
  /\ pr.pc = "entry"
  /\ ResolutionsDiffer(pr.map_a, pr.map_b)
  /\ pr' = [pr EXCEPT !.pc = "exit", !.status = 1]
  /\ UNCHANGED <<ac, last, maps, ctor>>

\* lines 491-498: the bins at the resolution of the fields handed in
PixelCrossFirstField ==
  /\ pr.pc = "entry"
  /\ ~ResolutionsDiffer(pr.map_a, pr.map_b)
  /\ pr' = [pr EXCEPT
              !.pc = "sweep",
              !.corr = CrossCorrelated(@, ac, pr.map_a.Resolution),
              !.resolution = pr.map_a.Resolution \div 2]
  /\ UNCHANGED <<ac, last, maps, ctor>>

\* lines 500-524: one pass of the loop over the coarser resolutions
PixelCrossCoarserField ==
  /\ pr.pc = "sweep"
  /\ pr.resolution >= ac.min_resolution
  /\ pr' = [pr EXCEPT
              !.sub_maps = @ + 1,
              !.corr = CrossCorrelated(@, ac, pr.resolution),
              !.resolution = @ \div 2]
  /\ UNCHANGED <<ac, last, maps, ctor>>

\* line 525: the loop is over and the call returns
PixelCrossReturn ==
  /\ pr.pc = "sweep"
  /\ ~(pr.resolution >= ac.min_resolution)
  /\ pr' = [pr EXCEPT !.pc = "done"]
  /\ last' = [last EXCEPT !.returned = TRUE]
  /\ UNCHANGED <<ac, maps, ctor>>

NextPixelCross ==
  \/ PixelCrossExit
  \/ PixelCrossFirstField
  \/ PixelCrossCoarserField
  \/ PixelCrossReturn

SpecPixelCross == InitPixelCross /\ [][NextPixelCross]_vars

---------------------------------------------------------------------------
(* ScalarMap and its resampling, as ScalarMapResamplingTests (lines        *)
(* 1225-1297) drives it.  The pixels of the map handed in are numbered so  *)
(* that pixel p lies in pixel p \div 4 of half the resolution.  An area is *)
(* counted in pixels of the map handed in; a real is an exact fraction in  *)
(* lowest terms.                                                           *)

RECURSIVE GCD(_, _)
GCD(a, b) == IF b = 0 THEN a ELSE GCD(b, a % b)

\* the real n / d, for d > 0
Ratio(n, d) ==
  LET g == GCD(IF n < 0 THEN -n ELSE n, d)
  IN [num |-> n \div g, den |-> d \div g]

RAdd(x, y) == Ratio(x.num * y.den + y.num * x.den, x.den * y.den)

RSub(x, y) == Ratio(x.num * y.den - y.num * x.den, x.den * y.den)

RMul(x, y) == Ratio(x.num * y.num, x.den * y.den)

\* x / y, for y > 0
RDiv(x, y) == Ratio(x.num * y.den, x.den * y.num)

\* the sum of term[p] over the pixels p of S
RECURSIVE RSum(_, _)
RSum(term, S) ==
  IF S = {} THEN Ratio(0, 1)
  ELSE LET p == CHOOSE q \in S : TRUE
       IN RAdd(term[p], RSum(term, S \ {p}))

RECURSIVE NSum(_, _)
NSum(term, S) ==
  IF S = {} THEN 0
  ELSE LET p == CHOOSE q \in S : TRUE
       IN term[p] + NSum(term, S \ {p})

\* line 1237: the resolution of the map the test resamples
TestResolution == 128

\* the area of a pixel of this resolution
PixelArea(resolution) ==
  (TestResolution \div resolution) * (TestResolution \div resolution)

\* the pixel of the coarser resolution that holds pixel p
SuperPixel(p, resolution) == p \div PixelArea(resolution)

\* a pixel of a DensityField no point was added to
ScalarPixel(weight) ==
  [Intensity |-> Ratio(0, 1), NPoints |-> 0, Weight |-> weight]

\* ScalarMap(Map&, resolution, DensityField): the pixels of the footprint
\* with their unmasked fractions
ScalarMapOfMap(unmasked) ==
  [Resolution |-> TestResolution,
   pixels |-> [p \in DOMAIN unmasked |-> ScalarPixel(unmasked[p])],
   area |-> RSum(unmasked, DOMAIN unmasked),
   total_intensity |-> Ratio(0, 1),
   total_points |-> 0,
   converted_to_overdensity |-> FALSE]

\* AddToMap(ang, object_weight) of a DensityField, the point lying in pixel p
AddToMap(map, p, object_weight) ==
  [map EXCEPT
     !.pixels[p].Intensity = RAdd(@, Ratio(object_weight, 1)),
     !.pixels[p].NPoints = @ + 1,
     !.total_intensity = RAdd(@, Ratio(object_weight, 1)),
     !.total_points = @ + 1]

\* the effective area of a pixel: its weight times the area of a pixel
EffectiveArea(map, pix) ==
  RMul(pix.Weight, Ratio(PixelArea(map.Resolution), 1))

\* the mean intensity of the map times the effective area of the pixel
ExpectedIntensity(map, pix) ==
  RMul(RDiv(map.total_intensity, map.area), EffectiveArea(map, pix))

\* ConvertToOverDensity: I becomes (I - mu * a) / (mu * a); once only
ConvertToOverDensity(map) ==
  IF map.converted_to_overdensity THEN map
  ELSE [map EXCEPT
          !.converted_to_overdensity = TRUE,
          !.pixels = [p \in DOMAIN map.pixels |->
             [map.pixels[p] EXCEPT
                !.Intensity =
                  RDiv(RSub(@, ExpectedIntensity(map, map.pixels[p])),
                       ExpectedIntensity(map, map.pixels[p]))]]]

\* ConvertFromOverDensity: I becomes I * mu * a + mu * a
ConvertFromOverDensity(map) ==
  IF ~map.converted_to_overdensity THEN map
  ELSE [map EXCEPT
          !.converted_to_overdensity = FALSE,
          !.pixels = [p \in DOMAIN map.pixels |->
             [map.pixels[p] EXCEPT
                !.Intensity =
                  RAdd(RMul(@, ExpectedIntensity(map, map.pixels[p])),
                       ExpectedIntensity(map, map.pixels[p]))]]]

\* the pixels of the map that lie in pixel c of the coarser resolution
SubPixels(map, c, resolution) ==
  {p \in DOMAIN map.pixels : SuperPixel(p, resolution) = c}

\* Resample of a DensityField: the intensity and the points of the coarse
\* pixel are the sums over the pixels it holds, its weight their area over
\* its own
ResampleFrom(values, map, c, resolution) ==
  LET inside == SubPixels(map, c, resolution)
  IN [Intensity |-> RSum([p \in inside |-> values.pixels[p].Intensity], inside),
      NPoints |-> NSum([p \in inside |-> map.pixels[p].NPoints], inside),
      Weight |-> RDiv(RSum([p \in inside |-> map.pixels[p].Weight], inside),
                      Ratio(PixelArea(resolution), 1))]

\* Resample that sums the values as they stand, over-densities included
ResampleAsStored(map, c, resolution) == ResampleFrom(map, map, c, resolution)

\* Resample: the resampled pixel is based on the raw values
Resample(map, c, resolution) ==
  ResampleFrom(ConvertFromOverDensity(map), map, c, resolution)

\* ScalarMap(ScalarMap&, resolution): the coarser map of the same geometry
ScalarMapOfScalarMap(scalar_map, resolution) ==
  LET coarse == {SuperPixel(p, resolution) : p \in DOMAIN scalar_map.pixels}
      pix == [c \in coarse |-> Resample(scalar_map, c, resolution)]
  IN [Resolution |-> resolution,
      pixels |-> pix,
      area |-> RSum([c \in coarse |->
                       RMul(pix[c].Weight, Ratio(PixelArea(resolution), 1))],
                    coarse),
      total_intensity |-> RSum([c \in coarse |-> pix[c].Intensity], coarse),
      total_points |-> NSum([c \in coarse |-> pix[c].NPoints], coarse),
      converted_to_overdensity |-> FALSE]

\* the footprints of the test: the unmasked fraction of each pixel
TestFootprints ==
  {[p \in {0, 1, 2, 3} |-> Ratio(1, 1)],
   (0 :> Ratio(1, 2)) @@ (1 :> Ratio(1, 1)) @@ (5 :> Ratio(1, 4))
     @@ (17 :> Ratio(1, 1)) @@ (1024 :> Ratio(3, 4)),
   (3 :> Ratio(1, 1)) @@ (1023 :> Ratio(1, 8)) @@ (1024 :> Ratio(1, 1))}

\* line 1239 scaled down: the number of random points
MaxRandom == 3

NoMap == [Resolution |-> 0]

InitResample ==
  /\ ac = Unconstructed
  /\ last = [NoCall EXCEPT !.op = "ScalarMapResamplingTests",
                           !.returned = FALSE]
  /\ maps = IdleMaps
  /\ ctor = IdleCtor
  /\ \E unmasked \in TestFootprints, n_random \in 1..MaxRandom :
       pr = [pc |-> "add",
             scalar_map |-> ScalarMapOfMap(unmasked),
             n_random |-> n_random,
             n_found |-> 0,
             resolution |-> 0,
             sub_scalar_map |-> NoMap,
             total_intensity |-> Ratio(0, 1),
             total_area |-> Ratio(0, 1)]

\* lines 1243-1244: one random point of the footprint is added
TestAddToMap ==
  /\ pr.pc = "add"
  /\ pr.n_found < pr.n_random
  /\ \E p \in DOMAIN pr.scalar_map.pixels :
       pr' = [pr EXCEPT !.scalar_map = AddToMap(@, p, 2),
                        !.n_found = @ + 1]
  /\ UNCHANGED <<ac, last, maps, ctor>>

\* lines 1248-1249: the first loop starts at half the resolution
TestStartLoop ==
  /\ pr.pc = "add"
  /\ ~(pr.n_found < pr.n_random)
  /\ pr' = [pr EXCEPT !.pc = "raw",
                      !.resolution = pr.scalar_map.Resolution \div 2]
  /\ UNCHANGED <<ac, last, maps, ctor>>

\* lines 1250-1257 and 1277-1284: the coarser map and the sums over it
TestSubMap ==
  LET sub == ScalarMapOfScalarMap(pr.scalar_map, pr.resolution)
      coarse == DOMAIN sub.pixels
  IN [pr EXCEPT
        !.sub_scalar_map = sub,
        !.total_intensity =
          RSum([c \in coarse |-> sub.pixels[c].Intensity], coarse),
        !.total_area =
          RSum([c \in coarse |->
                  RMul(sub.pixels[c].Weight,
                       Ratio(PixelArea(sub.Resolution), 1))], coarse),
        !.resolution = @ \div 2]

\* lines 1248-1270: one pass of the loop over the map as it was filled
TestResampleRaw ==
  /\ pr.pc = "raw"
  /\ pr.resolution >= HPixResolution
  /\ pr' = TestSubMap
  /\ UNCHANGED <<ac, last, maps, ctor>>

\* lines 1272-1276: the map is converted and the second loop starts
TestConvertToOverDensity ==
  /\ pr.pc = "raw"
  /\ ~(pr.resolution >= HPixResolution)
  /\ pr' = [pr EXCEPT !.pc = "over",
                      !.scalar_map = ConvertToOverDensity(@),
                      !.sub_scalar_map = NoMap,
                      !.resolution = pr.scalar_map.Resolution \div 2]
  /\ UNCHANGED <<ac, last, maps, ctor>>

\* lines 1275-1296: one pass of the loop over the converted map
TestResampleOverDensity ==
  /\ pr.pc = "over"
  /\ pr.resolution >= HPixResolution
  /\ pr' = TestSubMap
  /\ UNCHANGED <<ac, last, maps, ctor>>

\* line 1297: the test is over
TestReturn ==
  /\ pr.pc = "over"
  /\ ~(pr.resolution >= HPixResolution)
  /\ pr' = [pr EXCEPT !.pc = "done"]
  /\ last' = [last EXCEPT !.returned = TRUE]
  /\ UNCHANGED <<ac, maps, ctor>>

NextResample ==
  \/ TestAddToMap
  \/ TestStartLoop
  \/ TestResampleRaw
  \/ TestConvertToOverDensity
  \/ TestResampleOverDensity
  \/ TestReturn

SpecResample == InitResample /\ [][NextResample]_vars

---------------------------------------------------------------------------
(* The ScalarMaps and TreeMaps the four estimators allocate, lines         *)
(* 339-784.  An estimator is followed as the sequence of what it does to   *)
(* the free store: new, a use through the pointer, delete, and the exit    *)
(* of the program.  pr.heap holds, for every object allocated, how often   *)
(* it was deleted; pr.ptr holds the object each local pointer points to.   *)

New(var) == [op |-> "new", var |-> var]

Use(var) == [op |-> "use", var |-> var]

Delete(var) == [op |-> "delete", var |-> var]

Exit == [op |-> "exit", var |-> ""]

\* n times the same step
Times(step, n) == AsSeq([k \in 1..n |-> step])

\* the steps, one after the other, of the passes of a loop
RECURSIVE Passes(_, _)
Passes(pass, n) == IF n = 0 THEN <<>> ELSE pass \o Passes(pass, n - 1)

\* the number of bins of [Begin(resolution), End(resolution))
BinsOf(s, resolution) == End(s, resolution) - Begin(s, resolution)

\* lines 393-408: one pass of the loop over the coarser resolutions
SubScalarMap(s, regions, resolution) ==
  <<Use("scalar_map"), New("sub_scalar_map")>>
  \o (IF regions THEN <<Use("scalar_map"), Use("sub_scalar_map")>> ELSE <<>>)
  \o Times(Use("sub_scalar_map"), BinsOf(s, resolution))
  \o <<Delete("sub_scalar_map")>>

RECURSIVE SubScalarMaps(_, _, _)
SubScalarMaps(s, regions, visited) ==
  IF visited = <<>> THEN <<>>
  ELSE SubScalarMap(s, regions, Head(visited))
       \o SubScalarMaps(s, regions, Tail(visited))

\* lines 339-410: FindPixelAutoCorrelation on a catalog of n_inside points
\* of the footprint
PixelAutoSteps(s, regions, n_inside) ==
  <<New("scalar_map")>>
  \o (IF regions THEN <<Use("scalar_map")>> ELSE <<>>)
  \o Times(Use("scalar_map"), n_inside)
  \o Times(Use("scalar_map"), 1 + BinsOf(s, s.max_resolution))
  \o SubScalarMaps(s, regions,
                   Halvings(s.max_resolution \div 2, s.min_resolution))
  \o <<Delete("scalar_map")>>

\* lines 501-523: one pass of the loop over the coarser resolutions
SubMapPair(s, regions, resolution) ==
  <<Use("scalar_map_a"), New("sub_map_a"), Use("scalar_map_b"),
    New("sub_map_b")>>
  \o (IF regions
      THEN <<Use("scalar_map_a"), Use("sub_map_a"), Use("sub_map_b")>>
      ELSE <<>>)
  \o Times(Use("sub_map_a"), BinsOf(s, resolution))
  \o Times(Use("sub_map_b"), BinsOf(s, resolution))
  \o <<Delete("sub_map_a"), Delete("sub_map_b")>>

RECURSIVE SubMapPairs(_, _, _)
SubMapPairs(s, regions, visited) ==
  IF visited = <<>> THEN <<>>
  ELSE SubMapPair(s, regions, Head(visited))
       \o SubMapPairs(s, regions, Tail(visited))

\* lines 412-525: FindPixelCrossCorrelation; both scalar maps are built at
\* max_resolution_, so line 484 finds them of one resolution
PixelCrossSteps(s, regions, n_inside) ==
  <<New("scalar_map_a"), New("scalar_map_b")>>
  \o (IF regions THEN <<Use("scalar_map_a"), Use("scalar_map_b")>> ELSE <<>>)
  \o Times(Use("scalar_map_a"), n_inside)
  \o Times(Use("scalar_map_b"), n_inside)
  \o <<Use("scalar_map_a"), Use("scalar_map_b")>>
  \o Times(Use("scalar_map_a"), BinsOf(s, s.max_resolution))
  \o Times(Use("scalar_map_b"), BinsOf(s, s.max_resolution))
  \o SubMapPairs(s, regions,
                 Halvings(s.max_resolution \div 2, s.min_resolution))
  \o <<Delete("scalar_map_a"), Delete("scalar_map_b")>>

\* the number of bins of [theta_pair_begin_, theta_pair_end_)
PairBinsOf(s) == s.theta_pair_end - s.theta_pair_begin

\* lines 555-561, 606-612: InitializeRegions on the tree, and the exit when
\* it fails
TreeRegions(tree, regions, tree_ok) ==
  IF regions THEN <<Use(tree)>> \o (IF tree_ok THEN <<>> ELSE <<Exit>>)
  ELSE <<>>

\* lines 596-636 with line 636 left out
RandomTreeKept(s, regions, tree_ok, n_inside) ==
  <<New("random_tree")>>
  \o Times(Use("random_tree"), n_inside)
  \o TreeRegions("random_tree", regions, tree_ok)
  \o Times(Use("random_tree"), 2 * PairBinsOf(s))

\* lines 587-637: one random iteration
RandomTreeSteps(s, regions, tree_ok, n_inside) ==
  <<New("random_tree")>>
  \o Times(Use("random_tree"), n_inside)
  \o TreeRegions("random_tree", regions, tree_ok)
  \o Times(Use("random_tree"), 2 * PairBinsOf(s))
  \o <<Delete("random_tree")>>

\* lines 527-646: FindPairAutoCorrelation
PairAutoSteps(s, regions, tree_ok, n_inside, random_iterations) ==
  <<New("galaxy_tree")>>
  \o Times(Use("galaxy_tree"), n_inside)
  \o TreeRegions("galaxy_tree", regions, tree_ok)
  \o Times(Use("galaxy_tree"), PairBinsOf(s))
  \o <<Delete("galaxy_tree")>>
  \o Passes(RandomTreeSteps(s, regions, tree_ok, n_inside), random_iterations)

\* lines 712-773: one random iteration of the cross-correlation
RandomTreeASteps(s, regions, tree_ok, n_inside) ==
  Times(Use("galaxy_tree_a"), PairBinsOf(s))
  \o <<New("random_tree_a")>>
  \o Times(Use("random_tree_a"), n_inside)
  \o TreeRegions("random_tree_a", regions, tree_ok)
  \o Times(Use("random_tree_a"), 2 * PairBinsOf(s))
  \o <<Delete("random_tree_a")>>

\* lines 648-784: FindPairCrossCorrelation
PairCrossSteps(s, regions, tree_ok, n_inside, random_iterations) ==
  <<New("galaxy_tree_a")>>
  \o Times(Use("galaxy_tree_a"), n_inside)
  \o TreeRegions("galaxy_tree_a", regions, tree_ok)
  \o Times(Use("galaxy_tree_a"), PairBinsOf(s))
  \o Passes(RandomTreeASteps(s, regions, tree_ok, n_inside), random_iterations)
  \o <<Delete("galaxy_tree_a")>>

Estimators4 ==
  {"FindPixelAutoCorrelation", "FindPixelCrossCorrelation",
   "FindPairAutoCorrelation", "FindPairCrossCorrelation"}

StepsOf(op, s, regions, tree_ok, n_inside, random_iterations) ==
  CASE op = "FindPixelAutoCorrelation" -> PixelAutoSteps(s, regions, n_inside)
    [] op = "FindPixelCrossCorrelation" -> PixelCrossSteps(s, regions, n_inside)
    [] op = "FindPairAutoCorrelation" ->
         PairAutoSteps(s, regions, tree_ok, n_inside, random_iterations)
    [] op = "FindPairCrossCorrelation" ->
         PairCrossSteps(s, regions, tree_ok, n_inside, random_iterations)

\* the objects the estimators are run on
HeapObjects == PixelCrossObjects \cup PairObjects

\* the numbers of catalog points inside the footprint
InsideCounts == {0, 2}

InitHeap ==
  /\ ac \in HeapObjects
  /\ maps = IdleMaps
  /\ ctor = IdleCtor
  /\ \E op \in Estimators4, regions \in BOOLEAN, tree_ok \in BOOLEAN,
        n_inside \in InsideCounts, random_iterations \in 0..MaxRandIter :
       /\ last = [NoCall EXCEPT !.op = op, !.returned = FALSE]
       /\ pr = [pc |-> 1,
                steps |-> StepsOf(op, ac, regions, tree_ok, n_inside,
                                  random_iterations),
                heap |-> <<>>,
                ptr |-> [var \in {} |-> 0],
                used_deleted |-> FALSE,
                status |-> 0]

\* the step the estimator is at
AtStep(op) ==
  /\ pr.pc \in 1..Len(pr.steps)
  /\ pr.steps[pr.pc].op = op

\* new: a fresh object, and the pointer points to it
HeapNew ==
  /\ AtStep("new")
  /\ pr' = [pr EXCEPT
              !.pc = @ + 1,
              !.heap = Append(@, [deleted |-> 0]),
              !.ptr = [var \in DOMAIN pr.ptr \cup {pr.steps[pr.pc].var} |->
                         IF var = pr.steps[pr.pc].var THEN Len(pr.heap) + 1
                         ELSE pr.ptr[var]]]
  /\ UNCHANGED <<ac, last, maps, ctor>>

\* a call or a read through the pointer
HeapUse ==
  /\ AtStep("use")
  /\ pr' = [pr EXCEPT
              !.pc = @ + 1,
              !.used_deleted =
                 @ \/ pr.heap[pr.ptr[pr.steps[pr.pc].var]].deleted > 0]
  /\ UNCHANGED <<ac, last, maps, ctor>>

\* delete through the pointer
HeapDelete ==
  /\ AtStep("delete")
  /\ pr' = [pr EXCEPT
              !.pc = @ + 1,
              !.heap[pr.ptr[pr.steps[pr.pc].var]].deleted = @ + 1]
  /\ UNCHANGED <<ac, last, maps, ctor>>

\* exit(2): the program ends inside the call
HeapExit ==
  /\ AtStep("exit")
  /\ pr' = [pr EXCEPT !.pc = 0, !.status = 2]
  /\ UNCHANGED <<ac, last, maps, ctor>>

\* the end of the function: the call returns
HeapReturn ==
  /\ pr.pc = Len(pr.steps) + 1
  /\ ~last.returned
  /\ last' = [last EXCEPT !.returned = TRUE]
  /\ UNCHANGED <<ac, maps, ctor, pr>>

NextHeap ==
  \/ HeapNew
  \/ HeapUse
  \/ HeapDelete
  \/ HeapExit
  \/ HeapReturn

SpecHeap == InitHeap /\ [][NextHeap]_vars

---------------------------------------------------------------------------
(* The scalar fields the pixel-based estimators build from a footprint,    *)
(* lines 344-345 and 420-423, by the constructor declared at lines 290-295 *)
(* of the header.                                                          *)

\* a bool handed in where a double is expected
BoolAsDouble(b) == IF b THEN Ratio(1, 1) ELSE Ratio(0, 1)

\* the default of min_unmasked_fraction, 0.0000001
MinUnmaskedFraction == Ratio(1, 10000000)

\* header lines 285-295: ScalarMap(stomp_map, resolution, scalar_map_type,
\* min_unmasked_fraction, use_map_weight_as_intensity,
\* use_map_weight_as_weight), the arguments after stomp_map bound in their
\* order and the missing ones defaulted; with use_map_weight_as_intensity
\* the type is set to ScalarField whatever was asked for
ScalarMapArguments(args) ==
  LET intensity == IF Len(args) >= 4 THEN args[4] ELSE FALSE
  IN [Resolution |-> args[1],
      MapType |-> IF intensity \/ Len(args) < 2 THEN "ScalarField"
                  ELSE args[2],
      min_unmasked_fraction |->
        IF Len(args) >= 3 THEN args[3] ELSE MinUnmaskedFraction,
      use_map_weight_as_intensity |-> intensity,
      use_map_weight_as_weight |-> IF Len(args) >= 5 THEN args[5] ELSE FALSE]

\* lines 344-345: the scalar field of FindPixelAutoCorrelation
PixelAutoScalarMap(s, use_weighted_randoms) ==
  ScalarMapArguments(<<s.max_resolution, "DensityField", BoolAsDouble(FALSE),
                       use_weighted_randoms>>)

\* lines 420-423: each of the two scalar fields of FindPixelCrossCorrelation
PixelCrossScalarMap(s, use_weighted_randoms) ==
  ScalarMapArguments(<<s.max_resolution, "DensityField", MinUnmaskedFraction,
                       FALSE, use_weighted_randoms>>)

\* FindPixelAutoCorrelation(stomp_map, galaxy, use_weighted_randoms) builds
\* its scalar field
PixelAutoField ==
  /\ \E use_weighted_randoms \in BOOLEAN :
       pr' = [pc |-> "auto",
              use_weighted_randoms |-> use_weighted_randoms,
              max_resolution |-> ac.max_resolution,
              scalar_maps |-> <<PixelAutoScalarMap(ac, use_weighted_randoms)>>]
  /\ last' = Call("FindPixelAutoCorrelation")
  /\ UNCHANGED <<ac, maps, ctor>>

\* FindPixelCrossCorrelation(stomp_map_a, stomp_map_b, galaxy_a, galaxy_b,
\* use_weighted_randoms) builds its two scalar fields
PixelCrossFields ==
  /\ \E use_weighted_randoms \in BOOLEAN :
       pr' = [pc |-> "cross",
              use_weighted_randoms |-> use_weighted_randoms,
              max_resolution |-> ac.max_resolution,
              scalar_maps |-> <<PixelCrossScalarMap(ac, use_weighted_randoms),
                                PixelCrossScalarMap(ac, use_weighted_randoms)>>]
  /\ last' = Call("FindPixelCrossCorrelation")
  /\ UNCHANGED <<ac, maps, ctor>>

NextFields ==
  \/ DoSetMaxResolution
  \/ DoAssignBinResolutions
  \/ PixelAutoField
  \/ PixelCrossFields

SpecFields == Init /\ [][NextFields]_vars

---------------------------------------------------------------------------
(* The resolution of the trees of the pair-based estimators, lines 531-535 *)
(* and 654-658, 596 and 733.  pr.trees lists the resolution each TreeMap   *)
(* was constructed with.                                                   *)

\* the number of values of a 16-bit integer
Int16 == 65536

\* the uint32_t n stored in an int16_t
AsInt16(n) ==
  LET m == n % Int16
  IN IF m >= Int16 \div 2 THEN m - Int16 ELSE m

\* lines 531-533, 654-656: int16_t tree_resolution
TreeResolution(s) ==
  IF s.regionation_resolution > s.min_resolution
  THEN AsInt16(s.regionation_resolution)
  ELSE AsInt16(s.min_resolution)

\* the resolutions handed to SetMinResolution before the call
TreeMinResolutions == {4, 128, 16384, 32768}

\* the region resolutions of the footprints the object adopted, 0 for none
TreeRegionResolutions == {0, 64, 32768}

\* the object after SetMinResolution(r) and, for a regionated footprint,
\* after the lines 266-280 of FindAutoCorrelationWithRegions
TreeObject(s, r, g) ==
  IF g = 0 THEN SetMinResolution(s, r)
  ELSE AdoptRegions(SetMinResolution(s, r),
                    [Area |-> 100, NRegion |-> MaxRegions,
                     RegionResolution |-> g])

InitTree ==
  /\ \E s \in PairObjects, r \in TreeMinResolutions,
        g \in TreeRegionResolutions :
       ac = TreeObject(s, r, g)
  /\ maps = IdleMaps
  /\ ctor = IdleCtor
  /\ \E op \in {"FindPairAutoCorrelation", "FindPairCrossCorrelation"},
        random_iterations \in 0..MaxRandIter :
       /\ last = [NoCall EXCEPT !.op = op, !.returned = FALSE]
       /\ pr = [pc |-> "entry",
                random_iterations |-> random_iterations,
                rand_iter |-> 0,
                tree_resolution |-> 0,
                trees |-> <<>>]

\* lines 531-535, 654-658: tree_resolution is set and the galaxy tree built
GalaxyTreeBuilt ==
  /\ pr.pc = "entry"
  /\ pr' = [pr EXCEPT !.pc = "random_loop",
                      !.tree_resolution = TreeResolution(ac),
                      !.trees = Append(@, TreeResolution(ac))]
  /\ UNCHANGED <<ac, last, maps, ctor>>

\* lines 587-596, 712-733: the random tree of one more iteration
RandomTreeBuilt ==
  /\ pr.pc = "random_loop"
  /\ RandomLoopGuard(pr.rand_iter, pr.random_iterations)
  /\ pr' = [pr EXCEPT !.rand_iter = (@ + 1) % 256,
                      !.trees = Append(@, pr.tree_resolution)]
  /\ UNCHANGED <<ac, last, maps, ctor>>

\* the loop is over and the call returns
TreesReturn ==
  /\ pr.pc = "random_loop"
  /\ ~RandomLoopGuard(pr.rand_iter, pr.random_iterations)
  /\ pr' = [pr EXCEPT !.pc = "done"]
  /\ last' = [last EXCEPT !.returned = TRUE]
  /\ UNCHANGED <<ac, maps, ctor>>

NextTree ==
  \/ GalaxyTreeBuilt
  \/ RandomTreeBuilt
  \/ TreesReturn

SpecTree == InitTree /\ [][NextTree]_vars

---------------------------------------------------------------------------
(* The loops over the coarser resolutions, lines 391-409 of                *)
(* FindPixelAutoCorrelation(ScalarMap&) and lines 500-524 of               *)
(* FindPixelCrossCorrelation(ScalarMap&, ScalarMap&), one pass at a time.  *)
(* pr.resolution is the loop variable, pr.visited the resolutions coarser  *)
(* maps were built at; a coarser map is alive while pr.pc is "field".      *)

\* the values handed to SetMinResolution before the call
SweepMinResolutions == {0, 4, 64, 512}

\* the objects the loops are run on: as constructed, after
\* SetMinResolution(r), and after a regionated footprint was adopted
SweepObjects ==
  PixelCrossObjects \cup PairObjects
  \cup {SetMinResolution(s, r) :
          s \in PixelCrossObjects, r \in SweepMinResolutions}
  \cup {AdoptRegions(s, [Area |-> 100, NRegion |-> MaxRegions,
                         RegionResolution |-> 128]) :
          s \in PixelCrossObjects}

InitSweep ==
  /\ ac \in SweepObjects
  /\ maps = IdleMaps
  /\ ctor = IdleCtor
  /\ \E op \in {"FindPixelAutoCorrelation", "FindPixelCrossCorrelation"},
        map_resolution \in ScalarMapResolutions :
       /\ last = [NoCall EXCEPT !.op = op, !.returned = FALSE]
       /\ pr = [pc |-> "entry",
                map_resolution |-> map_resolution,
                resolution |-> 0,
                visited |-> {}]

\* lines 379-392, 491-501: the bins at the resolution of the map handed in,
\* and the loop variable set to half of it
SweepFirstField ==
  /\ pr.pc = "entry"
  /\ pr' = [pr EXCEPT !.pc = "loop",
                      !.resolution = pr.map_resolution \div 2]
  /\ UNCHANGED <<ac, last, maps, ctor>>

\* lines 391-406, 500-520: resolution >= min_resolution_, and one coarser
\* map is built with new and correlated over the bins of its resolution
SweepCoarserField ==
  /\ pr.pc = "loop"
  /\ pr.resolution >= ac.min_resolution
  /\ pr' = [pr EXCEPT !.pc = "field",
                      !.visited = @ \cup {pr.resolution}]
  /\ UNCHANGED <<ac, last, maps, ctor>>

\* lines 408 and 392, 522-523 and 501: the coarser map is deleted and
\* resolution /= 2
SweepDeleteField ==
  /\ pr.pc = "field"
  /\ pr' = [pr EXCEPT !.pc = "loop",
                      !.resolution = @ \div 2]
  /\ UNCHANGED <<ac, last, maps, ctor>>

\* lines 410, 525: resolution < min_resolution_ and the call returns
SweepReturn ==
  /\ pr.pc = "loop"
  /\ ~(pr.resolution >= ac.min_resolution)
  /\ pr' = [pr EXCEPT !.pc = "done"]
  /\ last' = [last EXCEPT !.returned = TRUE]
  /\ UNCHANGED <<ac, maps, ctor>>

NextSweep ==
  \/ SweepFirstField
  \/ SweepCoarserField
  \/ SweepDeleteField
  \/ SweepReturn

\* the call keeps running while it has a step to take
SpecSweep == InitSweep /\ [][NextSweep]_vars /\ WF_vars(NextSweep)

---------------------------------------------------------------------------
(* The catalog points the estimators take in, lines 354-371 and 537-573,   *)
(* 617-624.  A point is its position on a line; the footprint is a set of  *)
(* positions; the one pair bin holds the pairs at a distance of 1 or 2.    *)
(* pr.field and pr.tree list the catalog points, by their index, that were *)
(* inserted into the scalar field and into the galaxy tree.                *)

\* the positions inside the footprint: stomp_map.Contains(point)
FootprintPositions == {1, 2, 3}

\* the positions catalog points can have
CatalogPositions == {0, 1, 2, 5}

\* the largest catalog
MaxCatalog == 3

Catalogs == UNION {[1..n -> CatalogPositions] : n \in 1..MaxCatalog}

\* the random points of the one random iteration, inside the footprint
RandomPositions == <<1, 3>>

Contains(position) == position \in FootprintPositions

\* the separation of the two positions falls into the pair bin
InBin(p, q) == (p - q) \in {-2, -1, 1, 2}

\* TreeMap::FindWeightedPairs(query, bin): the number of pairs of a query
\* point and a point of the tree whose separation is in the bin
FindWeightedPairs(tree_positions, query_positions) ==
  Cardinality({pair \in (DOMAIN query_positions) \X (DOMAIN tree_positions) :
                 InBin(query_positions[pair[1]], tree_positions[pair[2]])})

\* the positions of the catalog points of the indices listed
PositionsOf(catalog, indices) ==
  AsSeq([k \in 1..Len(indices) |-> catalog[indices[k]]])

InitCatalog ==
  /\ ac \in PairObjects
  /\ maps = IdleMaps
  /\ ctor = IdleCtor
  /\ \E op \in {"FindPixelAutoCorrelation", "FindPairAutoCorrelation"},
        galaxy \in Catalogs :
       /\ last = [NoCall EXCEPT !.op = op, !.returned = FALSE]
       /\ pr = [pc |-> "add",
                galaxy |-> galaxy,
                iter |-> 1,
                n_filtered |-> 0,
                n_kept |-> 0,
                n_fail |-> 0,
                field |-> <<>>,
                tree |-> <<>>,
                gal_gal |-> 0,
                gal_rand |-> 0]

\* lines 355-360: one pass of the loop that adds the catalog to the scalar
\* field; AddToMap may fail to place the point
PixelAddPoint ==
  /\ last.op = "FindPixelAutoCorrelation"
  /\ pr.pc = "add"
  /\ pr.iter <= Len(pr.galaxy)
  /\ \E placed \in BOOLEAN :
       pr' = IF Contains(pr.galaxy[pr.iter])
             THEN [pr EXCEPT
                     !.iter = @ + 1,
                     !.n_filtered = @ + 1,
                     !.n_kept = IF placed THEN @ + 1 ELSE @,
                     !.field = IF placed THEN Append(@, pr.iter) ELSE @]
             ELSE [pr EXCEPT !.iter = @ + 1]
  /\ UNCHANGED <<ac, last, maps, ctor>>

\* lines 362-375: the warnings, the sweep over the field, and the return
PixelAddReturn ==
  /\ last.op = "FindPixelAutoCorrelation"
  /\ pr.pc = "add"
  /\ pr.iter > Len(pr.galaxy)
  /\ pr' = [pr EXCEPT !.pc = "done"]
  /\ last' = [last EXCEPT !.returned = TRUE]
  /\ UNCHANGED <<ac, maps, ctor>>

\* lines 539-549: one pass of the loop that adds the catalog to the galaxy
\* tree; AddPoint may fail
TreeAddPoint ==
  /\ last.op = "FindPairAutoCorrelation"
  /\ pr.pc = "add"
  /\ pr.iter <= Len(pr.galaxy)
  /\ \E added \in BOOLEAN :
       pr' = IF Contains(pr.galaxy[pr.iter])
             THEN [pr EXCEPT
                     !.iter = @ + 1,
                     !.n_kept = @ + 1,
                     !.n_fail = IF added THEN @ ELSE @ + 1,
                     !.tree = IF added THEN Append(@, pr.iter) ELSE @]
             ELSE [pr EXCEPT !.iter = @ + 1]
  /\ UNCHANGED <<ac, last, maps, ctor>>

\* lines 563-573: the galaxy tree is queried with the catalog
QueryGalaxyTree ==
  /\ last.op = "FindPairAutoCorrelation"
  /\ pr.pc = "add"
  /\ pr.iter > Len(pr.galaxy)
  /\ pr' = [pr EXCEPT
              !.pc = "random",
              !.gal_gal = @ + FindWeightedPairs(
                                PositionsOf(pr.galaxy, pr.tree), pr.galaxy)]
  /\ UNCHANGED <<ac, last, maps, ctor>>

\* lines 596-624: the random tree is queried with the catalog, and the call
\* goes on to its return
QueryRandomTree ==
  /\ pr.pc = "random"
  /\ pr' = [pr EXCEPT
              !.pc = "done",
              !.gal_rand = FindWeightedPairs(RandomPositions, pr.galaxy)]
  /\ last' = [last EXCEPT !.returned = TRUE]
  /\ UNCHANGED <<ac, maps, ctor>>

NextCatalog ==
  \/ PixelAddPoint
  \/ PixelAddReturn
  \/ TreeAddPoint
  \/ QueryGalaxyTree
  \/ QueryRandomTree

SpecCatalog == InitCatalog /\ [][NextCatalog]_vars

---------------------------------------------------------------------------
(* Vocabulary of the properties.                                           *)

NBins == Len(ac.thetabin)

Bins == 1..NBins

InPairRange(i) == ac.theta_pair_begin <= i /\ i < ac.theta_pair_end

InPixelRange(i) == ac.theta_pixel_begin <= i /\ i < ac.theta_pixel_end

R(i) == ac.thetabin[i].Resolution

\* the resolution CalculateResolution() assigns to bin i when asked afresh
Fresh(i) ==
  CalculateResolution(ac.thetabin[i], MaxPixelResolution).Resolution

---------------------------------------------------------------------------
(* C1 - C4, C7: the resolution break.                                      *)

\* the cap the table gives for a catalog of n_obj objects on area sq. degrees
TableCap(n_obj, area) ==
  IF area > 500
  THEN (IF n_obj < 500000 THEN 64
        ELSE IF n_obj < 2000000 THEN 128
        ELSE IF n_obj < 10000000 THEN 256 ELSE 512)
  ELSE (IF n_obj < 500000 THEN 256
        ELSE IF n_obj < 2000000 THEN 512
        ELSE IF n_obj < 10000000 THEN 1024 ELSE 2048)

\* C1: AutoMaxResolution(n, A) passes to SetMaxResolution the cap of the
\* table, for every n and A, the boundary values 500000, 2000000 and
\* 10000000 included.
C1_AutoCapIsTableCap ==
  last.op = "AutoMaxResolution" =>
    /\ last.resolution = TableCap(last.n_obj, last.area)
    /\ ac.max_resolution = TableCap(last.n_obj, last.area)

\* C2: after SetMaxResolution(cap), directly or through AutoMaxResolution,
\* exactly the bins whose freshly assigned resolution exceeds the cap have
\* R = 0 and lie in the pair range; every other bin, a bin exactly at the cap
\* included, keeps its fresh resolution and lies in the pixel range.
C2_BreakAtCap ==
  last.op \in {"SetMaxResolution", "AutoMaxResolution"} =>
    \A i \in Bins :
      /\ Fresh(i) > last.resolution =>
           R(i) = 0 /\ InPairRange(i) /\ ~InPixelRange(i)
      /\ Fresh(i) <= last.resolution =>
           R(i) = Fresh(i) /\ InPixelRange(i) /\ ~InPairRange(i)

\* a break that leaves a bin exactly at the cap, and a bin above it
C2_Witness ==
  /\ last.op \in {"SetMaxResolution", "AutoMaxResolution"}
  /\ \E i, j \in Bins :
       Fresh(i) = last.resolution /\ R(i) = last.resolution
       /\ Fresh(j) > last.resolution /\ R(j) = 0

\* C3: the pair range and the pixel range are adjacent and cover the bins:
\* the pair range starts at the first bin, ends where the pixel range starts,
\* and the pixel range ends past the last bin; every pair bin precedes, and
\* has a smaller theta than, every pixel bin.
C3_RangesAdjacent ==
  /\ ac.theta_pair_begin = 1
  /\ ac.theta_pair_end = ac.theta_pixel_begin
  /\ ac.theta_pixel_end = NBins + 1
  /\ \A i, j \in Bins :
       InPairRange(i) /\ InPixelRange(j) =>
         i < j /\ ac.thetabin[i].ThetaMin < ac.thetabin[j].ThetaMin

\* a break strictly inside the bin sequence, kept by a later operation
C3_Witness ==
  /\ last.op \in {"SetMinResolution", "AssignBinResolutions"}
  /\ 1 < ac.theta_pixel_begin
  /\ ac.theta_pixel_begin < NBins + 1

\* C4: after a constructor that assigned resolutions, a bin is in the pair
\* range if and only if its R = 0, and in the pixel range if and only if its
\* R > 0.
C4_RangeIffResolution ==
  last.assigned =>
    \A i \in Bins :
      /\ InPairRange(i) <=> R(i) = 0
      /\ InPixelRange(i) <=> R(i) > 0

PixelBins == {i \in Bins : InPixelRange(i)}

IsMinOver(m, S) == (\E i \in S : R(i) = m) /\ (\A i \in S : m <= R(i))

IsMaxOver(m, S) == (\E i \in S : R(i) = m) /\ (\A i \in S : m >= R(i))

\* C7: whenever the pixel range is non-empty, MinResolution() is
\* the minimum and MaxResolution() the maximum of R over the pixel range.
C7_MinMaxOverPixelRange ==
  PixelBins # {} =>
    /\ IsMinOver(ac.min_resolution, PixelBins)
    /\ IsMaxOver(ac.max_resolution, PixelBins)

\* what the operations do leave in MinResolution() and MaxResolution():
\* after AssignBinResolutions, UseOnlyPixels or an assigning
\* constructor they are the minimum and maximum of R over all bins; after
\* SetMaxResolution(r) or AutoMaxResolution, MaxResolution() is the cap r,
\* an upper bound of R over the pixel range; after SetMinResolution(r),
\* MinResolution() is r, a lower bound of R over the pixel range.
MinMaxAsLeft ==
  /\ (last.op \in {"AssignBinResolutions", "UseOnlyPixels"}
      \/ (last.op = "Constructor" /\ last.assigned)) =>
       /\ IsMinOver(ac.min_resolution, Bins)
       /\ IsMaxOver(ac.max_resolution, Bins)
  /\ last.op \in {"SetMaxResolution", "AutoMaxResolution"} =>
       /\ ac.max_resolution = last.resolution
       /\ \A i \in PixelBins : R(i) <= ac.max_resolution
  /\ last.op = "SetMinResolution" =>
       /\ ac.min_resolution = last.resolution
       /\ \A i \in PixelBins : R(i) >= ac.min_resolution

\* a cap above every pixel bin, or a floor that raised a pixel bin
MinMaxAsLeftWitness ==
  \/ /\ last.op = "SetMaxResolution"
     /\ PixelBins # {}
     /\ \A i \in PixelBins : R(i) < ac.max_resolution
  \/ /\ last.op = "SetMinResolution"
     /\ \E i \in PixelBins : R(i) = last.resolution /\ Fresh(i) < R(i)

\* C7, the half the pixel sweep relies on: no bin of the pixel range has a
\* resolution below MinResolution().
C7_MinBelowPixelBins ==
  \A i \in PixelBins : R(i) >= ac.min_resolution

---------------------------------------------------------------------------
(* C5, C8, C9: the drivers.                                                *)

AutoDrivers == {"FindAutoCorrelation", "FindAutoCorrelationWithRegions"}

RegionDrivers == {"FindAutoCorrelationWithRegions",
                  "FindCrossCorrelationWithRegions"}

CrossDrivers == {"FindCrossCorrelation", "FindCrossCorrelationWithRegions"}

\* the resolutions run from first down to final, each half the one before
HalvesDown(visited, first, final) ==
  /\ Len(visited) > 0
  /\ visited[1] = first
  /\ visited[Len(visited)] = final
  /\ \A k \in 1..(Len(visited) - 1) : 2 * visited[k + 1] = visited[k]

\* C5: in every call of FindAutoCorrelation or FindAutoCorrelationWithRegions,
\* whatever was called on the object before, each bin of the pixel range is
\* correlated exactly once, by the scalar field of the bin's own resolution,
\* and the scalar fields visited are those of max_resolution,
\* max_resolution / 2, ... down to min_resolution.
C5_EveryPixelBinOnce ==
  (last.op \in AutoDrivers /\ PixelBins # {}) =>
    /\ last.pixel_ran
    /\ \A i \in PixelBins : last.corr[i] = 1 /\ last.field[i] = {R(i)}
    /\ HalvesDown(last.visited, ac.max_resolution, ac.min_resolution)

\* C8: when a driver with regions finds the footprint regionated at a
\* resolution above max_resolution, every bin has resolution 0, the pixel
\* range is empty, the pair range is the whole sequence of bins and only the
\* pair-based estimator runs.
C8_FineRegionsOnlyPairs ==
  (last.op \in RegionDrivers
   /\ ac.regionation_resolution > ac.max_resolution) =>
    /\ \A i \in Bins : R(i) = 0
    /\ ac.theta_pixel_begin = ac.theta_pixel_end
    /\ ac.theta_pair_begin = 1
    /\ ac.theta_pair_end = NBins + 1
    /\ ~last.pixel_ran
    /\ last.pair_ran

\* a driver with regions chose the break itself, at 64, and found the
\* footprint regionated at 128
C8_Witness ==
  /\ last.op \in RegionDrivers
  /\ last.auto
  /\ last.resolution = 64
  /\ ac.regionation_resolution = 128
  /\ ac.max_resolution = 64
  /\ last.pair_ran

\* n is the integer part of the square root of size_a * size_b
IsTruncatedSqrt(n, size_a, size_b) ==
  /\ ProductLE(Product(n, n), Product(size_a, size_b))
  /\ ~ProductLE(Product(n + 1, n + 1), Product(size_a, size_b))

\* C9: both cross-correlation drivers, when the break was not set by hand,
\* call AutoMaxResolution with the integer part of sqrt(|a| * |b|) as the
\* number of objects and the smaller of the two footprints' areas as area.
C9_CrossAutoArguments ==
  (last.op \in CrossDrivers /\ ~ac.manual_resolution_break) =>
    /\ last.auto
    /\ IsTruncatedSqrt(last.n_obj, last.sizes[1], last.sizes[2])
    /\ last.area = Min(maps.a.Area, maps.b.Area)

\* the part of C9 that is about FindCrossCorrelation alone
C9_WithoutRegions ==
  (last.op = "FindCrossCorrelation" /\ ~ac.manual_resolution_break) =>
    /\ last.auto
    /\ IsTruncatedSqrt(last.n_obj, last.sizes[1], last.sizes[2])
    /\ last.area = Min(maps.a.Area, maps.b.Area)

---------------------------------------------------------------------------
(* C10: the bins of the log-spaced constructor.                            *)

\* the left edge 10^(k / B), as a logarithm in model units
Edge(k, B) == k * (ExpUnits \div B)

\* the first grid index: B * floor(log10(theta_min))
FirstIndex == ctor.bins_per_decade
              * ((ctor.theta_min - (ctor.theta_min % ExpUnits)) \div ExpUnits)

\* the grid indices from the first one whose edge is below theta_max
Walk == {k \in FirstIndex..(ctor.bins_per_decade * (ctor.theta_max \div ExpUnits + 1)) :
           Edge(k, ctor.bins_per_decade) < ctor.theta_max}

\* the grid indices a bin is emitted for
Emitted == {k \in Walk : Edge(k, ctor.bins_per_decade) >= ctor.theta_min}

\* the sequence seq lists the set S of integers in increasing order
ListsInOrder(seq, S) ==
  /\ Len(seq) = Cardinality(S)
  /\ \A n \in 1..Len(seq) : seq[n] \in S
  /\ \A n \in 1..(Len(seq) - 1) : seq[n] < seq[n + 1]

\* C10: the log-spaced constructor walks the grid of left edges 10^(k/B)
\* from k = B * floor(log10(theta_min)) and emits a bin for edge k exactly
\* when the edge is >= theta_min and < theta_max, with right edge
\* 10^((k+1)/B); the bins are contiguous, their theta_min strictly
\* increases, and (0.001, 10, 6) gives exactly 24 bins.
C10_LogBins ==
  ctor.pc \in {"done", "fault"} =>
    /\ ListsInOrder(ctor.walked, Walk)
    /\ ListsInOrder([n \in 1..Len(ac.thetabin) |->
                       ac.thetabin[n].ThetaMin \div (ExpUnits \div ctor.bins_per_decade)],
                    Emitted)
    /\ \A n \in 1..Len(ac.thetabin) :
         /\ ac.thetabin[n].ThetaMin % (ExpUnits \div ctor.bins_per_decade) = 0
         /\ ac.thetabin[n].ThetaMax
              = ac.thetabin[n].ThetaMin + (ExpUnits \div ctor.bins_per_decade)
    /\ \A n \in 1..(Len(ac.thetabin) - 1) :
         /\ ac.thetabin[n].ThetaMax = ac.thetabin[n + 1].ThetaMin
         /\ ac.thetabin[n].ThetaMin < ac.thetabin[n + 1].ThetaMin
    /\ (ctor.theta_min = -90 /\ ctor.theta_max = 30 /\ ctor.bins_per_decade = 6)
         => Len(ac.thetabin) = 24

\* the constructor has returned from being called with (0.001, 10, 6)
C10_Witness ==
  /\ ctor.pc = "done"
  /\ ctor.theta_min = -90
  /\ ctor.theta_max = 30
  /\ ctor.bins_per_decade = 6
  /\ Len(ac.thetabin) = 24
  /\ Len(ctor.walked) = 24

---------------------------------------------------------------------------
(* C6: the pair counts FindPairAutoCorrelation leaves.                     *)

RECURSIVE SumOf(_)
SumOf(seq) == IF seq = <<>> THEN 0 ELSE Head(seq) + SumOf(Tail(seq))

\* the real x is the quotient n / d
IsQuotient(x, n, d) == x.den # 0 /\ d # 0 /\ x.num * d = n * x.den

---------------------------------------------------------------------------
(* C11, C12: the ends of the binning the constructors leave.               *)

\* C11: when the log-spaced constructor returns from a call with
\* theta_min < theta_max, ThetaMin() of the object, the minimum angular scale
\* of the first bin, is the theta_min it was called with and ThetaMax(), the
\* maximum angular scale of the last bin, is the theta_max it was called with.
C11_LogEnds ==
  ctor.pc = "done" =>
    /\ ac.theta_min = ctor.theta_min
    /\ ac.theta_max = ctor.theta_max

\* C11 for arguments that are both edges of the grid 10^(k / B)
C11_OnTheGrid ==
  (/\ ctor.pc = "done"
   /\ ctor.theta_min % (ExpUnits \div ctor.bins_per_decade) = 0
   /\ ctor.theta_max % (ExpUnits \div ctor.bins_per_decade) = 0) =>
    /\ ac.theta_min = ctor.theta_min
    /\ ac.theta_max = ctor.theta_max

\* the fraction x lies in (lo, hi]
InHalfOpen(x, lo, hi) == lo * x.den < x.num /\ x.num <= hi * x.den

\* C12: when the linear constructor returns from a call with (N, theta_min,
\* theta_max), it has built N bins; with D = (theta_max - theta_min) / N,
\* bin i (counted from 0) has lower edge theta_min + i * D, upper edge
\* theta_min + (i + 1) * D and its theta at the midpoint, inside
\* (lower edge, upper edge]; ThetaMin() and ThetaMax() of the object are
\* theta_min and theta_max.
C12_LinearBins ==
  ctor.pc = "done" =>
    /\ Len(ctor.bins) = ctor.n_bins
    /\ \A i \in 0..(ctor.n_bins - 1) :
         LET bin == ctor.bins[i + 1]
             lower == ctor.theta_min + i * ctor.dtheta
             upper == ctor.theta_min + (i + 1) * ctor.dtheta
         IN /\ bin.ThetaMin = lower
            /\ bin.ThetaMax = upper
            /\ 2 * bin.Theta.num = (lower + upper) * bin.Theta.den
            /\ InHalfOpen(bin.Theta, bin.ThetaMin, bin.ThetaMax)
    /\ ac.theta_min = Log10OfTenths(ctor.theta_min)
    /\ ac.theta_max = Log10OfTenths(ctor.theta_max)

\* C12, the number of bins alone
C12_BinCount ==
  ctor.pc = "done" => Len(ctor.bins) = ctor.n_bins /\ NBins = ctor.n_bins

---------------------------------------------------------------------------
(* C13: what SetMinResolution changes and what it leaves alone.            *)

\* C13: SetMinResolution(r) sets R to r in every bin of the pixel range whose
\* R is below r, and leaves as they were every pixel bin with R >= r, every
\* bin of the pair range (an R of 0 stays 0), the four ends of the two
\* ranges, max_resolution and the manual-break flag.
C13_SetMinFrame ==
  [][DoSetMinResolution =>
       /\ Len(ac'.thetabin) = Len(ac.thetabin)
       /\ \A i \in Bins :
            /\ (InPixelRange(i) /\ R(i) < last'.resolution) =>
                 ac'.thetabin[i] =
                   [ac.thetabin[i] EXCEPT !.Resolution = last'.resolution]
            /\ (InPixelRange(i) /\ R(i) >= last'.resolution) =>
                 ac'.thetabin[i] = ac.thetabin[i]
            /\ InPairRange(i) => ac'.thetabin[i] = ac.thetabin[i]
       /\ ac'.theta_pixel_begin = ac.theta_pixel_begin
       /\ ac'.theta_pixel_end = ac.theta_pixel_end
       /\ ac'.theta_pair_begin = ac.theta_pair_begin
       /\ ac'.theta_pair_end = ac.theta_pair_end
       /\ ac'.max_resolution = ac.max_resolution
       /\ ac'.manual_resolution_break = ac.manual_resolution_break]_vars

\* SetMinResolution(r) has raised one pixel bin to r, next to a pixel bin
\* that was at r or above already and a pair bin with R = 0
C13_Witness ==
  /\ last.op = "SetMinResolution"
  /\ \E i, j, k \in Bins :
       /\ InPixelRange(i) /\ Fresh(i) < R(i) /\ R(i) = last.resolution
       /\ InPixelRange(j) /\ Fresh(j) = R(j) /\ R(j) >= last.resolution
       /\ InPairRange(k) /\ R(k) = 0

---------------------------------------------------------------------------
(* C14, C15: the covariance matrix.                                        *)

\* the sum over the regions r of 1..n of term[r]
RECURSIVE SumOver(_, _)
SumOver(term, n) == IF n = 0 THEN 0 ELSE term[n] + SumOver(term, n - 1)

\* the fractions x and y are the same number
SameReal(x, y) == x.num * y.den = y.num * x.den

\* the covariance of bins a and b, counted from 0, as the claim gives it
ClaimedCovariance(a, b) ==
  LET bin_a == ac.thetabin[a + 1]
      bin_b == ac.thetabin[b + 1]
      N == bin_a.NRegion
  IN IF bin_a.NRegion = bin_b.NRegion /\ N > 0
     THEN [num |-> (N - 1) * (N - 1)
                   * SumOver([r \in 1..N |->
                                (bin_a.Wtheta[r] - bin_a.MeanWtheta)
                                * (bin_b.Wtheta[r] - bin_b.MeanWtheta)], N),
           den |-> N * N]
     ELSE IF a = b THEN Real(bin_a.WthetaError * bin_a.WthetaError)
     ELSE Real(0)

\* C14: for all bin indices a, b < NBins, Covariance(a, b) = Covariance(b, a);
\* when both bins have the same N_region > 0 it is (N-1)^2 / N^2 times the
\* sum over the regions of (w_r(a) - mean_w(a)) * (w_r(b) - mean_w(b)),
\* otherwise 0 for a # b and the squared Poisson error of bin a for a = b.
C14_Covariance ==
  last.op = "Covariance" =>
    /\ SameReal(last.covariance,
                Covariance(ac, AsUint8(last.b), AsUint8(last.a)))
    /\ SameReal(last.covariance, ClaimedCovariance(last.a, last.b))

\* C14 for the indices a uint8_t holds
C14_Uint8Indices ==
  (last.op = "Covariance" /\ last.a < Uint8 /\ last.b < Uint8) =>
    /\ SameReal(last.covariance,
                Covariance(ac, AsUint8(last.b), AsUint8(last.a)))
    /\ SameReal(last.covariance, ClaimedCovariance(last.a, last.b))

\* Covariance(a, b) has returned a non-zero jack-knife covariance of two
\* different bins
C14_Uint8Witness ==
  /\ last.op = "Covariance"
  /\ last.a # last.b
  /\ ac.thetabin[last.a + 1].NRegion = 3
  /\ ac.thetabin[last.b + 1].NRegion = 3
  /\ last.covariance.num # 0

\* C15: for every number of bins N, WriteCovariance on a file that can be
\* opened writes its lines in row-major order, line k (from 0) for the pair
\* (k div N, k mod N), never more than N * N of them, and returns true once
\* exactly N * N are written; when the file cannot be opened it writes
\* nothing and returns false.
C15_WriteCovariance ==
  last.op = "WriteCovariance" =>
    /\ Len(pr.written) <= NBins * NBins
    /\ \A k \in 1..Len(pr.written) :
         pr.written[k] = <<(k - 1) \div NBins, (k - 1) % NBins>>
    /\ pr.pc \in {"return", "returned"} =>
         IF pr.wrote_file THEN Len(pr.written) = NBins * NBins
                          ELSE Len(pr.written) = 0

\* C15 for objects of at most 255 bins
C15_FewBins ==
  (last.op = "WriteCovariance" /\ NBins < Uint8) =>
    /\ Len(pr.written) <= NBins * NBins
    /\ \A k \in 1..Len(pr.written) :
         pr.written[k] = <<(k - 1) \div NBins, (k - 1) % NBins>>
    /\ pr.pc \in {"return", "returned"} =>
         IF pr.wrote_file THEN Len(pr.written) = NBins * NBins
                          ELSE Len(pr.written) = 0

\* WriteCovariance has returned true from writing the nine lines of three bins
C15_FewBinsWitness ==
  /\ last.op = "WriteCovariance"
  /\ pr.pc = "returned"
  /\ pr.wrote_file
  /\ NBins = 3
  /\ Len(pr.written) = 9

---------------------------------------------------------------------------
(* C16: the regions a driver with regions adopts.                          *)

---------------------------------------------------------------------------
(* C17: the drivers after UseOnlyPixels and UseOnlyPairs.                  *)

\* the step is a call of FindAutoCorrelation or FindCrossCorrelation
PlainDriverStep == DoFindAutoCorrelation \/ DoFindCrossCorrelation

\* C17: a FindAutoCorrelation or FindCrossCorrelation that follows
\* UseOnlyPixels() computes every bin with the pixel-based estimator: when
\* the estimators run the pair range is empty, no bin has R = 0 and the pair
\* sweep is not executed; one that follows UseOnlyPairs() executes the pair
\* sweep only.
C17_OneEstimatorOnly ==
  [][PlainDriverStep =>
       /\ (last.op = "UseOnlyPixels") =>
            /\ ac'.theta_pair_begin = ac'.theta_pair_end
            /\ \A i \in 1..Len(ac'.thetabin) : ac'.thetabin[i].Resolution # 0
            /\ last'.pixel_ran
            /\ ~last'.pair_ran
       /\ (last.op = "UseOnlyPairs") =>
            /\ ac'.theta_pixel_begin = ac'.theta_pixel_end
            /\ \A i \in 1..Len(ac'.thetabin) : ac'.thetabin[i].Resolution = 0
            /\ last'.pair_ran
            /\ ~last'.pixel_ran]_vars

\* C17, the half about UseOnlyPairs
C17_AfterUseOnlyPairs ==
  [][(PlainDriverStep /\ last.op = "UseOnlyPairs") =>
       /\ ac'.theta_pixel_begin = ac'.theta_pixel_end
       /\ \A i \in 1..Len(ac'.thetabin) : ac'.thetabin[i].Resolution = 0
       /\ last'.pair_ran
       /\ ~last'.pixel_ran]_vars

---------------------------------------------------------------------------
(* C18: a resolution break set by hand.                                    *)

---------------------------------------------------------------------------
(* C19: scalar fields of different resolutions.                            *)

\* C19: FindPixelCrossCorrelation(map_a, map_b) called with scalar fields of
\* different resolutions exits with status 1 before any bin is correlated
\* and before any coarser scalar field is created; called with scalar fields
\* of one resolution it never exits.
C19_MismatchExits ==
  /\ pr.map_a.Resolution # pr.map_b.Resolution =>
       /\ pr.pc \in {"entry", "exit"}
       /\ pr.sub_maps = 0
       /\ \A i \in Bins : pr.corr[i] = 0
       /\ pr.pc = "exit" => pr.status = 1
  /\ pr.map_a.Resolution = pr.map_b.Resolution =>
       /\ pr.pc # "exit"
       /\ pr.status = 0

\* the call has exited on fields of resolutions 256 and 64, with a pixel bin
\* at 256 left uncorrelated
C19_Witness ==
  /\ pr.pc = "exit"
  /\ pr.status = 1
  /\ pr.map_a.Resolution = 256
  /\ pr.map_b.Resolution = 64
  /\ \E i \in Bins : InPixelRange(i) /\ R(i) = 256 /\ pr.corr[i] = 0

---------------------------------------------------------------------------
(* C20: the accessors by resolution.                                       *)

\* the power-of-two resolutions from HPixResolution to MaxPixelResolution
PixelResolutions ==
  {r \in HPixResolution..MaxPixelResolution :
     \E k \in 0..15 : r = HPixResolution * 2^k}

\* the bins of the half-open range [Begin(r), End(r))
BinsAt(r) == {i \in Bins : Begin(ac, r) <= i /\ i < End(ac, r)}

\* C20: in every state the configuration operations reach and for every
\* power-of-two resolution r from HPixResolution to MaxPixelResolution,
\* [Begin(r), End(r)) holds exactly the bins of the pixel range whose R is r,
\* none when there are none; the pixel range is ordered by non-increasing R;
\* [Begin(0), End(0)) is the pair range and [Begin(), End()) is every bin.
C20_RangesByResolution ==
  /\ \A r \in PixelResolutions :
       /\ Begin(ac, r) <= End(ac, r)
       /\ BinsAt(r) = {i \in PixelBins : R(i) = r}
  /\ \A i, j \in PixelBins : i < j => R(i) >= R(j)
  /\ Begin(ac, 0) = ac.theta_pair_begin
  /\ End(ac, 0) = ac.theta_pair_end
  /\ BinsAt(0) = {i \in Bins : InPairRange(i)}
  /\ BinsAt(1) = Bins

\* two pixel bins share a resolution, a third pixel bin has another, next to
\* a pair range that is not empty
C20_Witness ==
  /\ \E r \in PixelResolutions :
       /\ Cardinality(BinsAt(r)) = 2
       /\ \E i \in PixelBins : R(i) # r
       /\ BinsAt(0) # {}
       /\ BinsAt(r) \cup BinsAt(0) # Bins

---------------------------------------------------------------------------
(* C21: resampling keeps the totals of the map.                            *)

\* a coarser map has been built in the loop the test is in
SubMapBuilt == pr.pc \in {"raw", "over", "done"} /\ pr.sub_scalar_map # NoMap

---------------------------------------------------------------------------
(* C22: what an estimator allocates it frees before it returns.            *)

\* C22: when FindPixelAutoCorrelation, FindPixelCrossCorrelation,
\* FindPairAutoCorrelation or FindPairCrossCorrelation has returned, every
\* ScalarMap and TreeMap it allocated has been deleted exactly once, and at
\* no step of the call was one used or deleted after its deletion.
C22_AllocatedIsFreed ==
  /\ ~pr.used_deleted
  /\ \A k \in 1..Len(pr.heap) : pr.heap[k].deleted <= 1
  /\ last.returned => \A k \in 1..Len(pr.heap) : pr.heap[k].deleted = 1

\* FindPairAutoCorrelation has returned after two random iterations on a
\* regionated footprint: three trees were allocated
C22_Witness ==
  /\ last.returned
  /\ last.op = "FindPairAutoCorrelation"
  /\ Len(pr.heap) = 3
  /\ \E k \in 1..Len(pr.steps) : pr.steps[k] = Use("random_tree")

\* FindPixelCrossCorrelation has returned after it built coarser maps
C22_WitnessPixel ==
  /\ last.returned
  /\ last.op = "FindPixelCrossCorrelation"
  /\ Len(pr.heap) > 4

---------------------------------------------------------------------------
(* C23: the scalar field of the auto-correlation and those of the          *)
(* cross-correlation.                                                      *)

\* the parameters the claim names
ClaimedField(max_resolution, use_weighted_randoms) ==
  [Resolution |-> max_resolution,
   MapType |-> "DensityField",
   min_unmasked_fraction |-> Ratio(1, 10000000),
   use_map_weight_as_intensity |-> FALSE,
   use_map_weight_as_weight |-> use_weighted_randoms]

\* C23: for both values of use_weighted_randoms, FindPixelAutoCorrelation
\* builds its scalar field with the parameters FindPixelCrossCorrelation
\* uses for each of its two: resolution max_resolution, type DensityField,
\* min_unmasked_fraction 1e-7, use_map_weight_as_intensity false and
\* use_map_weight_as_weight = use_weighted_randoms.
C23_SameFieldParameters ==
  pr.pc = "auto" =>
    /\ pr.scalar_maps[1] = ClaimedField(pr.max_resolution,
                                         pr.use_weighted_randoms)
    /\ pr.scalar_maps[1] = PixelCrossScalarMap(ac, pr.use_weighted_randoms)

\* the fields of the cross-correlation have the parameters the claim names
C23_CrossFields ==
  pr.pc = "cross" =>
    \A k \in 1..2 : pr.scalar_maps[k] = ClaimedField(pr.max_resolution,
                                                      pr.use_weighted_randoms)

\* the auto-correlation asks for the resolution and, but for
\* use_map_weight_as_intensity, for the type the claim names
C23_AutoResolution ==
  pr.pc = "auto" =>
    /\ pr.scalar_maps[1].Resolution = pr.max_resolution
    /\ ~pr.use_weighted_randoms => pr.scalar_maps[1].MapType = "DensityField"

---------------------------------------------------------------------------
(* C24: the resolution of the point indexes.                               *)

\* C24: in FindPairAutoCorrelation and FindPairCrossCorrelation the galaxy
\* tree and every random tree are built at
\* max(min_resolution, regionation_resolution), whatever values up to
\* MaxPixelResolution the two resolutions have.
C24_TreeResolution ==
  \A k \in 1..Len(pr.trees) :
    pr.trees[k] = Max(ac.min_resolution, ac.regionation_resolution)

\* it is so while both resolutions are below 32768
C24_BelowInt16 ==
  Max(ac.min_resolution, ac.regionation_resolution) < Int16 \div 2 =>
    \A k \in 1..Len(pr.trees) :
      pr.trees[k] = Max(ac.min_resolution, ac.regionation_resolution)

\* three trees were built at the region resolution, above min_resolution
\* before the footprint was adopted
C24_BelowInt16Witness ==
  /\ Len(pr.trees) = 3
  /\ ac.regionation_resolution = 64
  /\ pr.trees[3] = 64

---------------------------------------------------------------------------
(* C25: the loops over the coarser resolutions end.                        *)

\* C25: for every min_resolution the public operations can leave,
\* SetMinResolution(0) included, and every resolution of the scalar field,
\* the loops of FindPixelAutoCorrelation(ScalarMap&) and
\* FindPixelCrossCorrelation(ScalarMap&, ScalarMap&) end and the call
\* returns.
C25_SweepTerminates == <>(pr.pc = "done")

\* with min_resolution above 0 the call returns
C25_TerminatesAboveZero == (ac.min_resolution > 0) => <>(pr.pc = "done")

\* the loop variable is never above half the resolution of the map
C25_Halves == pr.pc = "loop" => pr.resolution <= pr.map_resolution \div 2

\* a call has returned after its loop built four coarser maps
C25_AboveZeroWitness ==
  /\ pr.pc = "done"
  /\ ac.min_resolution > 0
  /\ Cardinality(pr.visited) >= 4

---------------------------------------------------------------------------
(* C26: the bins the region-aware kernels are handed.                      *)

\* the last call was a driver, and it handed bin i to a kernel: a scalar
\* field correlated the bin, or the pair-based estimator ran over it
HandedToKernel(i) ==
  /\ last.op \in AutoDrivers \cup CrossDrivers
  /\ \/ last.pixel_ran /\ last.corr[i] > 0
     \/ last.pair_ran /\ InPairRange(i)

\* lines 346, 381, 395, 424, 492, 505, 555, 564: the kernels with regions
\* are the ones called when the footprint has regions
KernelWithRegions == maps.a.NRegion > 0

\* C26: whenever a kernel with regions (AutoCorrelateWithRegions,
\* CrossCorrelateWithRegions, FindWeightedPairsWithRegions) is called on a
\* bin, the bin has been initialized for regions with the footprint's
\* region count; so for the drivers without regions on a footprint that
\* already has regions, and after ClearRegions().
C26_KernelBinsInitialized ==
  \A i \in Bins :
    (HandedToKernel(i) /\ KernelWithRegions) =>
      ac.thetabin[i].NRegion = maps.a.NRegion

\* it is so for the drivers with regions
C26_DriversWithRegions ==
  \A i \in Bins :
    (HandedToKernel(i) /\ KernelWithRegions /\ last.op \in RegionDrivers) =>
      ac.thetabin[i].NRegion = maps.a.NRegion

\* a driver with regions handed a bin to each of the two estimators
C26_DriversWithRegionsWitness ==
  /\ last.op \in RegionDrivers
  /\ KernelWithRegions
  /\ \E i \in Bins : HandedToKernel(i) /\ InPairRange(i)
  /\ \E i \in Bins : HandedToKernel(i) /\ ~InPairRange(i)

---------------------------------------------------------------------------
(* C27: FindPairAutoCorrelation called twice.                              *)

\* the call was made with one random iteration and its queries found, in
\* bin i, what gave EarlierWeights
SameQueries(i) ==
  /\ pr.random_iterations = 1
  /\ pr.gg[i] = <<3>>
  /\ pr.gr[i] = <<1>>
  /\ pr.rr[i] = <<3>>

\* the four pair counts of the bin are those of EarlierWeights
AsEarlier(b) ==
  /\ SameReal(b.gal_gal, EarlierWeights.gal_gal)
  /\ SameReal(b.gal_rand, EarlierWeights.gal_rand)
  /\ SameReal(b.rand_gal, EarlierWeights.rand_gal)
  /\ SameReal(b.rand_rand, EarlierWeights.rand_rand)

\* C27: a second call of FindPairAutoCorrelation on the same object, with
\* the same footprint, catalog, k_rand and random catalogs, leaves in every
\* pair bin the gal_gal, gal_rand, rand_gal and rand_rand a single call
\* leaves: nothing of the first call adds into the second.
C27_SecondCallAsFirst ==
  pr.pc = "done" =>
    \A i \in PairRange(ac) :
      (pr.before[i] = EarlierWeights /\ SameQueries(i)) => AsEarlier(pr.acc[i])

\* EarlierWeights is what a single call with these queries leaves
C27_FirstCall ==
  pr.pc = "done" =>
    \A i \in PairRange(ac) :
      (pr.before[i] = NoWeights /\ SameQueries(i)) => AsEarlier(pr.acc[i])

\* the random counts of the second call are those of a single call
C27_RandomCounts ==
  pr.pc = "done" =>
    \A i \in PairRange(ac) :
      (pr.before[i] = EarlierWeights /\ SameQueries(i)) =>
        /\ SameReal(pr.acc[i].gal_rand, EarlierWeights.gal_rand)
        /\ SameReal(pr.acc[i].rand_gal, EarlierWeights.rand_gal)
        /\ SameReal(pr.acc[i].rand_rand, EarlierWeights.rand_rand)

\* a second call with the queries of the first has returned
C27_RandomCountsWitness ==
  /\ pr.pc = "done"
  /\ \E i \in PairRange(ac) : pr.before[i] = EarlierWeights /\ SameQueries(i)

---------------------------------------------------------------------------
(* C28: catalog points outside the footprint.                              *)

\* the catalog without its points outside the footprint
RECURSIVE InsideOnly(_)
InsideOnly(galaxy) ==
  IF galaxy = <<>> THEN <<>>
  ELSE (IF Contains(Head(galaxy)) THEN <<Head(galaxy)>> ELSE <<>>)
       \o InsideOnly(Tail(galaxy))

\* no point outside the footprint was inserted into the scalar field or
\* into the galaxy tree, and the counts are in order: the points placed are
\* no more than the points inside, which are no more than the catalog (the
\* pair-based estimator counts the points inside in n_kept and the failed
\* insertions in n_fail)
NoneInserted ==
  /\ \A k \in 1..Len(pr.field) : Contains(pr.galaxy[pr.field[k]])
  /\ \A k \in 1..Len(pr.tree) : Contains(pr.galaxy[pr.tree[k]])
  /\ last.op = "FindPixelAutoCorrelation" =>
       /\ Len(pr.field) = pr.n_kept
       /\ pr.n_kept <= pr.n_filtered
       /\ pr.n_filtered <= Len(pr.galaxy)
  /\ last.op = "FindPairAutoCorrelation" =>
       /\ Len(pr.tree) = pr.n_kept - pr.n_fail
       /\ pr.n_kept - pr.n_fail <= pr.n_kept
       /\ pr.n_kept <= Len(pr.galaxy)

\* C28: a catalog point outside the footprint adds to no accumulator of any
\* bin: it is not inserted into the scalar field, not inserted into the
\* galaxy tree, and not used as a query point of a weighted pair count;
\* the call goes on, and the points counted are no more than the points
\* inside, which are no more than the catalog.
C28_OutsideAddsNothing ==
  /\ NoneInserted
  /\ pr.pc \in {"random", "done"} =>
       pr.gal_gal = FindWeightedPairs(PositionsOf(pr.galaxy, pr.tree),
                                      InsideOnly(pr.galaxy))
  /\ (pr.pc = "done" /\ last.op = "FindPairAutoCorrelation") =>
       pr.gal_rand = FindWeightedPairs(RandomPositions, InsideOnly(pr.galaxy))

\* the part about the insertions and the counts
C28_NotInserted == NoneInserted

\* a call has returned whose catalog had a point outside the footprint and
\* two points inside, one of which could not be placed
C28_NotInsertedWitness ==
  /\ pr.pc = "done"
  /\ Len(pr.galaxy) = 3
  /\ Len(InsideOnly(pr.galaxy)) = 2
  /\ Len(pr.field) + Len(pr.tree) = 1

---------------------------------------------------------------------------
(* C29: the angular range of the pair bins.                                *)

\* the pair range has a bin
SomePairBin == ac.theta_pair_begin < ac.theta_pair_end

\* C29: in every configuration with at least one bin, whether the pair
\* range is empty, partial or all the bins, ThetaMin(0), ThetaMax(0),
\* Sin2ThetaMin(0) and Sin2ThetaMax(0) read bins of the bin sequence only,
\* never the position past its end, and ThetaMax(0) and Sin2ThetaMax(0)
\* return the upper bound of the last pair bin.
C29_PairAccessorsInRange ==
  NBins >= 1 =>
    /\ Dereferenceable(ac, PairBeginRead(ac))
    /\ Dereferenceable(ac, PairEndRead(ac))
    /\ SomePairBin =>
         ThetaMaxOfPairs(ac) = {ac.thetabin[ac.theta_pair_end - 1].ThetaMax}

\* ThetaMin(0) and Sin2ThetaMin(0) read a bin of the sequence, and so do
\* ThetaMax(0) and Sin2ThetaMax(0) while a pixel bin follows the pair range
C29_ReadsWithPixelBins ==
  NBins >= 1 =>
    /\ Dereferenceable(ac, PairBeginRead(ac))
    /\ ac.theta_pixel_begin < ac.theta_pixel_end =>
         Dereferenceable(ac, PairEndRead(ac))
    /\ SomePairBin =>
         ThetaMinOfPairs(ac) = {ac.thetabin[ac.theta_pair_begin].ThetaMin}

\* the pair range is partial: pair bins, then pixel bins
C29_ReadsWithPixelBinsWitness ==
  /\ SomePairBin
  /\ ac.theta_pixel_begin < ac.theta_pixel_end
  /\ ac.theta_pair_end = ac.theta_pixel_begin

---------------------------------------------------------------------------
(* C30: the bins the log-spaced constructor has when it reads their ends.  *)

\* the loop of lines 39-50 is over
LogLoopOver == ctor.pc \in {"done", "fault"}

\* an edge 10^(k / bins_per_decade) of the grid lies in [theta_min, theta_max)
EdgeBetween ==
  \E k \in -20..20 :
    /\ DoubleGE(Pow10(k, ctor.bins_per_decade), ctor.theta_min)
    /\ Pow10(k, ctor.bins_per_decade) < ctor.theta_max

\* C30: for every theta_min < theta_max and every bins_per_decade > 0, the
\* log-spaced constructor has pushed at least one bin when its loop is over,
\* so that thetabin_[0] and thetabin_[size() - 1], read for the overall
\* theta_min, theta_max and their sin^2, are bins of the sequence.
C30_LogHasBin ==
  LogLoopOver =>
    /\ Len(ac.thetabin) >= 1
    /\ ctor.pc = "done"

\* C30 for the calls with an edge of the grid in [theta_min, theta_max),
\* the only calls that push a bin
C30_BinPerEdge ==
  LogLoopOver =>
    /\ EdgeBetween <=> Len(ac.thetabin) >= 1
    /\ EdgeBetween => ctor.pc = "done"

\* the constructor has returned with bins for an interval with no whole
\* decade in it
C30_BinPerEdgeWitness ==
  /\ ctor.pc = "done"
  /\ EdgeBetween
  /\ ctor.theta_max - ctor.theta_min < ExpUnits
  /\ Len(ac.thetabin) >= 1

===========================================================================
